---- MODULE Spec2Model ----
(***************************************************************************)
(* A model of win-can-utils: the gs_usb event loop and driver              *)
(* (src/src/drivers/gs_usb), the gs_usb RX parser (frames.rs) and the      *)
(* canserver bridge (src/src/bin/canserver.rs).                            *)
(*                                                                         *)
(* 32-bit words are kept as pairs <<hi16, lo16>> so that no value leaves   *)
(* the range of the model checker's integers; bytes are 0..255.            *)
(***************************************************************************)
EXTENDS Integers, Sequences, FiniteSets, TLC

VARIABLES
    ev,         \* UsbEventLoop: the fields of the struct plus the loop's position
    frame_tx,   \* the mpsc channel of decoded frames (event loop -> driver)
    wire,       \* parser specification: bytes the device has still to send
    rx_log,     \* history: one entry per frame offered to frame_tx (header it came from)
    rx_steps,   \* history: the `consumed` of every parse step of the last chunk
    cmd_q,      \* the mpsc channel of UsbCommand (driver -> event loop)
    inflight,   \* the FuturesUnordered of bulk-in reads
    dev,        \* the adapter: channel mode and flags
    drv,        \* GsUsbDriver: the fields of the struct
    op,         \* the driver operation in progress (the caller's position in it)
    replies,    \* the oneshot reply channels, by command id
    hist,       \* history of commands, transfers, replies and operations
    budget,     \* what is left of the bounds on operations, faults and frames
    br,         \* canserver: main, the two forwarding tasks and the driver mutex
    ipc,        \* canserver: the IPC pipes, the two mpsc queues and the data forwarded
    sl,         \* SlcanDriver: the fields of the struct and the serial port
    pc          \* PcanDriver: the fields of the struct and the PCAN-Basic channel

parse_vars == <<ev, frame_tx, wire, rx_log, rx_steps>>

usb_vars == <<cmd_q, inflight, dev, drv, op, replies, hist, budget>>

host_vars == <<br, ipc, sl, pc>>

vars == <<ev, frame_tx, wire, rx_log, rx_steps, cmd_q, inflight, dev, drv, op, replies, hist, budget, br, ipc, sl, pc>>

-----------------------------------------------------------------------------
(* constants.rs *)

GS_HEADER_LEN == 12
GS_TS_LEN == 4
GS_MAX_DATA == 64
GS_MAX_FRAME_LEN == GS_HEADER_LEN + GS_TS_LEN + GS_MAX_DATA
GS_TX_FRAME_SIZE == GS_HEADER_LEN + GS_MAX_DATA

\* 0xFFFF_FFFF as <<hi16, lo16>>
GS_CAN_ECHO_ID_UNUSED == <<65535, 65535>>

\* CAN_EFF_FLAG = 1 << 31, CAN_RTR_FLAG = 1 << 30, CAN_ERR_FLAG = 1 << 29
CAN_EFF_BIT == 31
CAN_RTR_BIT == 30
CAN_ERR_BIT == 29

\* CAN_SFF_MASK = 0x7FF (11 bits), CAN_EFF_MASK = CAN_ERR_MASK = 0x1FFFFFFF (29 bits)
CAN_SFF_BITS == 11
CAN_EFF_BITS == 29

-----------------------------------------------------------------------------
(* 32-bit little-endian words *)

Pow2(n) == 2 ^ n

\* u32::from_le_bytes(bytes[i..i+4]) with i zero-based, as <<hi16, lo16>>
le32(bytes, i) ==
    <<bytes[i + 4] * 256 + bytes[i + 3], bytes[i + 2] * 256 + bytes[i + 1]>>

\* x.to_le_bytes() of a word <<hi16, lo16>>
to_le_bytes(w) ==
    <<w[2] % 256, w[2] \div 256, w[1] % 256, w[1] \div 256>>

\* (w & (1 << k)) != 0
HasBit(w, k) ==
    IF k >= 16 THEN (w[1] \div Pow2(k - 16)) % 2 = 1
               ELSE (w[2] \div Pow2(k)) % 2 = 1

\* w & ((1 << n) - 1), as an integer (n <= 29)
LowBits(w, n) ==
    IF n >= 16 THEN (w[1] % Pow2(n - 16)) * 65536 + w[2]
               ELSE w[2] % Pow2(n)

\* a < b on u32
Lt32(a, b) == a[1] < b[1] \/ (a[1] = b[1] /\ a[2] < b[2])

Zeros(n) == [i \in 1..n |-> 0]

-----------------------------------------------------------------------------
(* crosscan::can::CanFrame, an external crate: the constructors as the      *)
(* specification's data model states them (id range, data length 0..64).   *)

NoTimestamp == [some |-> FALSE]

ValidDataLen(n) == n \in (0..8) \cup {12, 16, 20, 24, 32, 48, 64}

len_to_dlc(n) ==
    CASE n <= 8 -> n
      [] n = 12 -> 9
      [] n = 16 -> 10
      [] n = 20 -> 11
      [] n = 24 -> 12
      [] n = 32 -> 13
      [] n = 48 -> 14
      [] OTHER -> 15

\* CanFrame::new(id, data)
CanFrame_new(id, data) ==
    IF id < Pow2(CAN_SFF_BITS) /\ ValidDataLen(Len(data))
    THEN [ok |-> TRUE,
          frame |-> [id |-> id, extended |-> FALSE, rtr |-> FALSE, error |-> FALSE,
                     dlc |-> len_to_dlc(Len(data)), data |-> data,
                     timestamp |-> NoTimestamp]]
    ELSE [ok |-> FALSE]

\* CanFrame::new_eff(id, data)
CanFrame_new_eff(id, data) ==
    IF id < Pow2(CAN_EFF_BITS) /\ ValidDataLen(Len(data))
    THEN [ok |-> TRUE,
          frame |-> [id |-> id, extended |-> TRUE, rtr |-> FALSE, error |-> FALSE,
                     dlc |-> len_to_dlc(Len(data)), data |-> data,
                     timestamp |-> NoTimestamp]]
    ELSE [ok |-> FALSE]

\* CanFrame::new_remote(id, dlc, extended)
CanFrame_new_remote(id, dlc, extended) ==
    IF id < Pow2(IF extended THEN CAN_EFF_BITS ELSE CAN_SFF_BITS) /\ dlc <= 8
    THEN [ok |-> TRUE,
          frame |-> [id |-> id, extended |-> extended, rtr |-> TRUE, error |-> FALSE,
                     dlc |-> dlc, data |-> <<>>, timestamp |-> NoTimestamp]]
    ELSE [ok |-> FALSE]

\* CanFrame::new_error(id)
CanFrame_new_error(id) ==
    IF id < Pow2(CAN_EFF_BITS)
    THEN [ok |-> TRUE,
          frame |-> [id |-> id, extended |-> FALSE, rtr |-> FALSE, error |-> TRUE,
                     dlc |-> 0, data |-> <<>>, timestamp |-> NoTimestamp]]
    ELSE [ok |-> FALSE]

-----------------------------------------------------------------------------
(* frames.rs *)

dlc_to_len(dlc) ==
    CASE dlc \in 0..8 -> dlc
      [] dlc = 9 -> 12
      [] dlc = 10 -> 16
      [] dlc = 11 -> 20
      [] dlc = 12 -> 24
      [] dlc = 13 -> 32
      [] dlc = 14 -> 48
      [] dlc = 15 -> 64
      [] OTHER -> 0

\* (x + 7) & !7
roundup8(x) == ((x + 7) \div 8) * 8

\* an alignment that leaves the length as it is
align_up_skipped(x, m) == x

align_up(x, m) == IF m = 0 THEN x ELSE ((x + (m - 1)) \div m) * m

\* bytes[8] is dlc, bytes[9] is chan (zero-based)
plausible_header(bytes, expected_chan) ==
    IF Len(bytes) < GS_HEADER_LEN THEN FALSE
    ELSE IF bytes[9] > 15 THEN FALSE
    ELSE IF bytes[10] # expected_chan THEN FALSE
    ELSE TRUE

\* a parser that forgets to test the echo id
skip_frame_ignoring_echo(echo_id, chan, channel_index) ==
    chan # channel_index

\* the test that skips TX echoes and frames of other channels (frames.rs:144)
skip_frame(echo_id, chan, channel_index) ==
    echo_id # GS_CAN_ECHO_ID_UNUSED \/ chan # channel_index

\* this extension keeps the high word when the tick wraps
extend_timestamp_keeping_high(last_ts64, ts32) ==
    IF last_ts64.some
    THEN [some |-> TRUE, upper |-> last_ts64.upper, low |-> ts32]
    ELSE [some |-> TRUE, upper |-> 0, low |-> ts32]

\* the 64-bit extension of a 32-bit tick (frames.rs:179-189); a timestamp is
\* [some, upper, low]: upper is the high 32-bit word, low the tick <<hi16, lo16>>
extend_timestamp(last_ts64, ts32) ==
    IF last_ts64.some
    THEN [some |-> TRUE,
          upper |-> IF Lt32(ts32, last_ts64.low) THEN last_ts64.upper + 1
                                                 ELSE last_ts64.upper,
          low |-> ts32]
    ELSE [some |-> TRUE, upper |-> 0, low |-> ts32]

\* the CanFrame built from an accepted header (frames.rs:156-174)
build_frame(raw_id, dlc, data) ==
    IF HasBit(raw_id, CAN_ERR_BIT)
    THEN CanFrame_new_error(LowBits(raw_id, CAN_EFF_BITS))
    ELSE IF HasBit(raw_id, CAN_RTR_BIT)
    THEN CanFrame_new_remote(
             IF HasBit(raw_id, CAN_EFF_BIT) THEN LowBits(raw_id, CAN_EFF_BITS)
                                            ELSE LowBits(raw_id, CAN_SFF_BITS),
             IF dlc < 8 THEN dlc ELSE 8,
             HasBit(raw_id, CAN_EFF_BIT))
    ELSE IF HasBit(raw_id, CAN_EFF_BIT)
    THEN CanFrame_new_eff(LowBits(raw_id, CAN_EFF_BITS), data)
    ELSE CanFrame_new(LowBits(raw_id, CAN_SFF_BITS), data)

ParseNone == [tag |-> "None"]
ParsePanic == [tag |-> "Panic"]
ParseSkip(why, consumed, last_ts64) ==
    [tag |-> "Some", has_frame |-> FALSE, why |-> why, consumed |-> consumed,
     last_ts64 |-> last_ts64]

\* parse_host_frame_at: None (wait), Some((maybe_frame, consumed)), or a panic
\* (a slice index past the end of `bytes`)
parse_host_frame_at(bytes, channel_index, timestamp_enabled, last_ts64, out_wmax, pad_pkts_enabled) ==
    IF Len(bytes) < GS_HEADER_LEN THEN ParseNone
    ELSE
    LET echo_id == le32(bytes, 0)
        raw_id == le32(bytes, 4)
        dlc == bytes[9]
        chan == bytes[10]
        data_len == dlc_to_len(dlc)
    IN
    IF dlc > 15 THEN ParseSkip("resync", 1, last_ts64)
    ELSE
    LET aligned_payload == IF data_len <= 8 THEN 8 ELSE roundup8(data_len)
        base0 == GS_HEADER_LEN + aligned_payload
    IN
    IF data_len = 0 /\ Len(bytes) < 20 THEN ParseNone
    ELSE
    LET base == IF data_len = 0 THEN 20 ELSE base0
        ts_off == base
    IN
    IF timestamp_enabled /\ Len(bytes) < base + 4 THEN ParseNone
    ELSE
    LET consumed0 == IF timestamp_enabled THEN base + 4 ELSE base
        padding == pad_pkts_enabled /\ out_wmax > 0
        padded == align_up(consumed0, out_wmax)
    IN
    IF padding /\ Len(bytes) < padded THEN ParseNone
    ELSE
    LET consumed == IF padding THEN padded ELSE consumed0 IN
    IF ~plausible_header(bytes, channel_index) THEN ParseSkip("resync", 1, last_ts64)
    ELSE IF skip_frame(echo_id, chan, channel_index) THEN ParseSkip("skip", consumed, last_ts64)
    ELSE IF Len(bytes) < GS_HEADER_LEN + data_len THEN ParsePanic
    ELSE
    LET data == SubSeq(bytes, GS_HEADER_LEN + 1, GS_HEADER_LEN + data_len)
        built == build_frame(raw_id, dlc, data)
    IN
    IF ~built.ok THEN ParseNone
    ELSE IF ~timestamp_enabled
    THEN [tag |-> "Some", has_frame |-> TRUE, why |-> "frame", frame |-> built.frame,
          consumed |-> consumed, last_ts64 |-> last_ts64,
          echo_id |-> echo_id, chan |-> chan, hdr_dlc |-> dlc]
    ELSE
    LET ts64 == extend_timestamp(last_ts64, le32(bytes, ts_off)) IN
    [tag |-> "Some", has_frame |-> TRUE, why |-> "frame",
     frame |-> [built.frame EXCEPT !.timestamp = ts64],
     consumed |-> consumed, last_ts64 |-> ts64,
     echo_id |-> echo_id, chan |-> chan, hdr_dlc |-> dlc]

-----------------------------------------------------------------------------
(* driver.rs: UsbEventLoop::process_rx_chunk *)

\* the element of a singleton set
TheOne(S) == CHOOSE x \in S : TRUE

RECURSIVE rx_parse_loop(_, _, _, _, _, _)

\* the body of the loop for the parse result r
rx_parse_step(e, buf, offset, last, frames, steps, r) ==
    CASE r.tag = "None" ->
            [offset |-> offset, last |-> last, frames |-> frames, steps |-> steps,
             panicked |-> FALSE]
      [] r.tag = "Panic" ->
            [offset |-> offset, last |-> last, frames |-> frames, steps |-> steps,
             panicked |-> TRUE]
      [] OTHER ->
            rx_parse_loop(e, buf, offset + r.consumed, r.last_ts64,
                IF r.has_frame
                THEN Append(frames, [frame |-> r.frame, echo_id |-> r.echo_id,
                                     chan |-> r.chan, hdr_dlc |-> r.hdr_dlc,
                                     channel_index |-> e.channel_index])
                ELSE frames,
                Append(steps, [why |-> r.why, consumed |-> r.consumed]))

\* the `while self.rx_buffer.len() >= offset + GS_HEADER_LEN` loop
rx_parse_loop(e, buf, offset, last, frames, steps) ==
    IF Len(buf) < offset + GS_HEADER_LEN
    THEN [offset |-> offset, last |-> last, frames |-> frames, steps |-> steps,
          panicked |-> FALSE]
    ELSE TheOne({ rx_parse_step(e, buf, offset, last, frames, steps, r) :
                    r \in {parse_host_frame_at(SubSeq(buf, offset + 1, Len(buf)),
                               e.channel_index, e.timestamp_enabled, last, e.out_wmax,
                               e.pad_pkts_enabled)} })

\* the accumulator, the frames and the steps after the loop has returned r; a
\* drain range past the end of rx_buffer panics and leaves it as it was
rx_drain(e, buf, r) ==
    IF r.panicked \/ r.offset > Len(buf)
    THEN [rx_buffer |-> buf, last |-> r.last, frames |-> r.frames,
          steps |-> r.steps, panicked |-> TRUE]
    ELSE [rx_buffer |-> SubSeq(buf, r.offset + 1, Len(buf)), last |-> r.last,
          frames |-> r.frames, steps |-> r.steps, panicked |-> FALSE]

\* process_rx_chunk up to the frames it sends: the accumulator after the drain,
\* the frames in order, and whether the thread panicked (a slice index or a
\* drain range past the end of rx_buffer)
process_rx_chunk(e, chunk) ==
    IF Len(chunk) = 0
    THEN [rx_buffer |-> e.rx_buffer, last |-> e.last_timestamp64, frames |-> <<>>,
          steps |-> <<>>, panicked |-> FALSE]
    ELSE TheOne({ rx_drain(e, e.rx_buffer \o chunk, r) :
                    r \in {rx_parse_loop(e, e.rx_buffer \o chunk, 0,
                                         e.last_timestamp64, <<>>, <<>>)} })

\* capacity of the frame channel (mpsc::channel::<CanFrame>(1024)), scaled down
FrameChanCap == 1

Min(a, b) == IF a < b THEN a ELSE b

\* the loop after process_rx_chunk has computed r: frames are sent to frame_tx
\* while it has room; with the channel full the loop stays suspended in
\* `frame_tx.send(frame).await` with the remaining frames
rx_send(e, ftx, r) ==
    LET fit == Min(Len(r.frames), FrameChanCap - Len(ftx))
        rest == SubSeq(r.frames, fit + 1, Len(r.frames))
    IN
    [ev |-> [e EXCEPT !.rx_buffer = r.rx_buffer,
                      !.last_timestamp64 = r.last,
                      !.pending = rest,
                      !.panic_after = r.panicked,
                      !.state = IF rest # <<>> THEN "sending"
                                ELSE IF r.panicked THEN "panicked"
                                ELSE "select"],
     sent |-> SubSeq(r.frames, 1, fit),
     steps |-> r.steps]

\* the event loop after handle_rx_completion(Ok(chunk))
rx_completion(e, ftx, chunk) ==
    TheOne({ rx_send(e, ftx, r) : r \in {process_rx_chunk(e, chunk)} })

-----------------------------------------------------------------------------
(* The device side of the bulk-in endpoint: one gs_host_frame on the wire,  *)
(* laid out as the RX grammar of the specification states it (12-byte      *)
(* header, payload aligned to 8, optional 32-bit tick, optional padding).  *)

\* payload byte i (1-based) of a frame with fill pattern `fill`
FillByte(fill, i) == IF fill = "ff" THEN 255 ELSE i

DevPayload(h) ==
    LET n == dlc_to_len(h.dlc)
        aligned == IF n <= 8 THEN 8 ELSE roundup8(n)
    IN [i \in 1..aligned |-> IF i <= n THEN FillByte(h.fill, i) ELSE 0]

DevFrameBytes(h, ts_enabled, pad, wmax) ==
    LET body == to_le_bytes(h.echo_id) \o to_le_bytes(h.raw_id)
                  \o <<h.dlc, h.chan, 0, 0>> \o DevPayload(h)
                  \o (IF ts_enabled THEN to_le_bytes(h.ts32) ELSE <<>>)
        total == IF pad THEN align_up(Len(body), wmax) ELSE Len(body)
    IN body \o Zeros(total - Len(body))

DevHdr(echo_id, raw_id, dlc, chan, fill, ts32) ==
    [echo_id |-> echo_id, raw_id |-> raw_id, dlc |-> dlc, chan |-> chan,
     fill |-> fill, ts32 |-> ts32]

\* the frames a device is let to send in the parser specification
DevFrames ==
    { DevHdr(GS_CAN_ECHO_ID_UNUSED, <<0, 291>>, 3, 0, "ramp", <<0, 5>>),       \* id 0x123
      DevHdr(<<0, 2>>, <<0, 291>>, 3, 0, "ramp", <<0, 9>>),                    \* TX echo
      DevHdr(GS_CAN_ECHO_ID_UNUSED, <<0, 291>>, 3, 1, "ff", <<0, 9>>),         \* channel 1
      DevHdr(GS_CAN_ECHO_ID_UNUSED, <<0, 31>>, 0, 0, "ramp", <<65535, 65535>>),\* dlc 0
      DevHdr(GS_CAN_ECHO_ID_UNUSED, <<32769, 2>>, 8, 0, "ff", <<0, 1>>),       \* extended
      DevHdr(GS_CAN_ECHO_ID_UNUSED, <<16384, 7>>, 2, 0, "ramp", <<0, 7>>),     \* remote
      DevHdr(GS_CAN_ECHO_ID_UNUSED, <<0, 291>>, 9, 0, "ramp", <<1, 0>>) }      \* 12 bytes

\* number of device frames in a stream
MaxFrames == 2

RECURSIVE Streams(_, _, _, _)
Streams(n, ts_enabled, pad, wmax) ==
    IF n = 0 THEN {<<>>}
    ELSE LET shorter == Streams(n - 1, ts_enabled, pad, wmax) IN
         shorter \cup
         { s \o DevFrameBytes(h, ts_enabled, pad, wmax) :
               s \in {t \in shorter : TRUE}, h \in DevFrames }

WMaxChoices == {32}

\* lengths of the chunks a bulk-in transfer may return
ChunkLens == {1, 4, 12, 15, 20, 24, 32}

-----------------------------------------------------------------------------
(* The gs_usb control protocol as the driver and the event loop use it.     *)

GS_USB_BREQ_BITTIMING == 1
GS_USB_BREQ_MODE == 2
GS_USB_BREQ_TIMESTAMP == 6

GS_CAN_MODE_RESET == 0
GS_CAN_MODE_START == 1

\* gs_device_mode.flags bits (1 << 0, 1 << 4, 1 << 7) and feature bits
\* (1 << 7, 1 << 8)
GS_CAN_MODE_LISTEN_ONLY == 1
GS_CAN_MODE_HW_TIMESTAMP == 16
GS_CAN_MODE_PAD_PKTS_TO_MAX_PKT_SIZE == 128
GS_CAN_FEATURE_PAD_PKTS_TO_MAX_PKT_SIZE == 128
GS_CAN_FEATURE_FD == 256

\* (word & bit) != 0 for a word below 2^31 and a single-bit mask
HasFlag(word, bit) == (word \div bit) % 2 = 1

\* word | bit
SetFlag(word, bit) == IF HasFlag(word, bit) THEN word ELSE word + bit

\* io::Result values: Ok(n) and Err(kind)
Ok(n) == [ok |-> TRUE, n |-> n]
Err(kind) == [ok |-> FALSE, kind |-> kind]
NoReply == [ok |-> FALSE, kind |-> "pending"]

\* bit_timing.rs encode_mode: mode and flags as two little-endian u32
encode_mode(mode, flags) ==
    <<mode % 256, 0, 0, 0, flags % 256, (flags \div 256) % 256, 0, 0>>

\* what the adapter reads back from the 8 bytes of a MODE request
decode_mode(data) == [mode |-> data[1], flags |-> data[5] + 256 * data[6]]

\* UsbCommand variants as the driver builds them
ControlOut(request, value, index, data) ==
    [kind |-> "ControlOut", request |-> request, value |-> value, index |-> index,
     data |-> data]

BulkWrite(endpoint, data) ==
    [kind |-> "BulkWrite", endpoint |-> endpoint, data |-> data]

UpdateConfig(out_wmax, pad_pkts_enabled) ==
    [kind |-> "UpdateConfig", out_wmax |-> out_wmax,
     pad_pkts_enabled |-> pad_pkts_enabled]

\* capacity of the command channel: mpsc::channel::<UsbCommand>(128)
CmdChanCap == 128

\* number of bulk-in reads the loop keeps in flight
NUM_RX_TRANSFERS == 8

\* error kinds of map_libusb_error / map_transfer_status that the device side
\* of the model produces
CtrlErrKinds == {"WouldBlock", "NotConnected"}
BulkOutErrKinds == {"BrokenPipe", "WouldBlock", "Other"}
BulkInErrKinds == {"NotConnected", "BrokenPipe"}

\* outcomes of a blocking control-out transfer of `len` bytes
CtrlOutcomes(len, faults) ==
    {Ok(len)} \cup (IF faults > 0 THEN {Err(k) : k \in CtrlErrKinds} ELSE {})

\* outcomes of a blocking bulk write of `len` bytes (complete, short, failed)
BulkOutcomes(len, faults) ==
    {Ok(len)} \cup
    (IF faults > 0 THEN {Ok(len - 1)} \cup {Err(k) : k \in BulkOutErrKinds} ELSE {})

\* the adapter after a MODE request it accepted
dev_after_mode(d, data) ==
    LET m == decode_mode(data) IN
    IF m.mode = GS_CAN_MODE_START
    THEN [d EXCEPT !.mode = "START", !.flags = m.flags]
    ELSE [d EXCEPT !.mode = "RESET"]

\* one transfer as the adapter saw it (history)
Xfer(cmd, src, what, detail, result) ==
    [cmd |-> cmd, src |-> src, what |-> what, detail |-> detail, result |-> result]

\* UsbEventLoop::recover_after_stall: MODE(RESET) then MODE(START), each with
\* flags 0, the second only if the first succeeded; r1, r2 are the outcomes of
\* the two control transfers
recover_after_stall(e, d, id, r1, r2) ==
    LET reset == encode_mode(GS_CAN_MODE_RESET, 0)
        start == encode_mode(GS_CAN_MODE_START, 0)
        x1 == Xfer(id, "recovery", "control_out", decode_mode(reset), r1)
        x2 == Xfer(id, "recovery", "control_out", decode_mode(start), r2)
        d1 == dev_after_mode(d, reset)
    IN
    IF ~r1.ok THEN [result |-> r1, dev |-> d, log |-> <<x1>>]
    ELSE IF ~r2.ok THEN [result |-> r2, dev |-> d1, log |-> <<x1, x2>>]
    ELSE [result |-> Ok(0), dev |-> dev_after_mode(d1, start), log |-> <<x1, x2>>]

\* UsbEventLoop::bulk_write: r is the outcome of the write, r1 and r2 those of
\* the recovery transfers; the `?` on recover_after_stall makes a failed
\* recovery the result of the whole call
bulk_write(e, d, id, endpoint, data, r, r1, r2) ==
    LET w == Xfer(id, "command", "bulk_write", [len |-> Len(data), endpoint |-> endpoint], r)
        halt == Xfer(id, "command", "clear_halt", [endpoint |-> endpoint], Ok(0))
    IN
    IF r.ok \/ r.kind \notin {"WouldBlock", "BrokenPipe"}
    THEN [result |-> r, dev |-> d, log |-> <<w>>, recovered |-> FALSE]
    ELSE IF r.kind = "WouldBlock"
    THEN [result |-> r, dev |-> d, log |-> <<w, halt>>, recovered |-> FALSE]
    ELSE LET rec == recover_after_stall(e, d, id, r1, r2) IN
         [result |-> IF rec.result.ok THEN r ELSE rec.result,
          dev |-> rec.dev,
          log |-> <<w, halt>> \o rec.log,
          recovered |-> rec.result.ok]

\* UsbEventLoop::handle_command for ControlOut: the transfer, then the loop's
\* own channel_index / timestamp_enabled follow the request whatever its result
handle_control_out(e, d, id, c, r) ==
    LET detail == IF c.request = GS_USB_BREQ_MODE THEN decode_mode(c.data)
                  ELSE [request |-> c.request]
        e1 == IF c.request = GS_USB_BREQ_MODE
              THEN [e EXCEPT !.channel_index = c.value % 256] ELSE e
        e2 == IF c.request = GS_USB_BREQ_TIMESTAMP
              THEN [e1 EXCEPT !.timestamp_enabled =
                        (IF c.data = <<>> THEN FALSE ELSE c.data[1] # 0)]
              ELSE e1
    IN
    [ev |-> e2,
     dev |-> IF r.ok /\ c.request = GS_USB_BREQ_MODE THEN dev_after_mode(d, c.data) ELSE d,
     result |-> r,
     log |-> <<Xfer(id, "command", "control_out", detail, r)>>]

-----------------------------------------------------------------------------
(* GsUsbDriver: the pure parts of its operations. `d` is the driver struct. *)

\* can_id word of a TX frame: the masked identifier plus EFF / RTR / ERR flags
tx_can_id(frame) ==
    LET id == IF frame.extended THEN frame.id % Pow2(CAN_EFF_BITS)
              ELSE frame.id % Pow2(CAN_SFF_BITS)
        hi == (id \div 65536)
              + (IF frame.extended THEN 32768 ELSE 0)
              + (IF frame.rtr THEN 16384 ELSE 0)
              + (IF frame.error THEN 8192 ELSE 0)
    IN <<hi, id % 65536>>

\* header and payload of a TX packet with a payload area of `room` bytes
encode_tx(d, frame, room) ==
    LET n == Min(Len(frame.data), room) IN
    to_le_bytes(<<0, d.tx_counter % 16>>) \o to_le_bytes(tx_can_id(frame))
        \o <<frame.dlc, d.channel_index, 0, 0>>
        \o [i \in 1..room |-> IF i <= n THEN frame.data[i] ELSE 0]

encode_frame_tx_76(d, frame) == encode_tx(d, frame, GS_MAX_DATA)

encode_frame_minimal(d, frame) == encode_tx(d, frame, 8)

\* the encoding send_frame and the fallback of try_tx choose
encode_frame(d, frame) ==
    IF HasFlag(d.features, GS_CAN_FEATURE_FD)
    THEN encode_frame_tx_76(d, frame)
    ELSE encode_frame_minimal(d, frame)

maybe_pad_tx(d, buf) ==
    IF d.pad_pkts /\ d.out_wmax > 0 /\ Len(buf) % d.out_wmax # 0
    THEN buf \o Zeros(d.out_wmax - (Len(buf) % d.out_wmax))
    ELSE buf

\* the variant of open_channel_flags that takes padding from the feature word
open_channel_flags_from_features(d) ==
    (IF d.timestamp_enabled THEN GS_CAN_MODE_HW_TIMESTAMP ELSE 0)
    + (IF HasFlag(d.features, GS_CAN_FEATURE_PAD_PKTS_TO_MAX_PKT_SIZE)
       THEN GS_CAN_MODE_PAD_PKTS_TO_MAX_PKT_SIZE ELSE 0)

\* open_channel_inner: the flags of MODE(START)
open_channel_flags(d) ==
    (IF d.timestamp_enabled THEN GS_CAN_MODE_HW_TIMESTAMP ELSE 0)
    + (IF d.pad_pkts THEN GS_CAN_MODE_PAD_PKTS_TO_MAX_PKT_SIZE ELSE 0)

\* the variant of open_channel_with_flags that drops the caller's extra flags
open_channel_with_flags_dropping_extra(d, extra_flags) ==
    (IF d.timestamp_enabled THEN GS_CAN_MODE_HW_TIMESTAMP ELSE 0)
    + (IF d.pad_pkts THEN GS_CAN_MODE_PAD_PKTS_TO_MAX_PKT_SIZE ELSE 0)

\* open_channel_with_flags: the flags of MODE(START)
open_channel_with_flags(d, extra_flags) ==
    LET flags == (IF d.timestamp_enabled THEN GS_CAN_MODE_HW_TIMESTAMP ELSE 0)
                 + (IF d.pad_pkts THEN GS_CAN_MODE_PAD_PKTS_TO_MAX_PKT_SIZE ELSE 0)
    IN IF extra_flags.some THEN SetFlag(flags, extra_flags.v) ELSE flags

\* the variant of bitrate_missing that lets every open through
bitrate_never_missing(d) == FALSE

\* self.configured_bitrate.is_none(), the guard of open_channel and
\* open_listen_only
bitrate_missing(d) == ~d.configured_bitrate.some

\* try_tx: the guard of the retry arm
tx_retries(d, reply) == ~reply.ok /\ reply.kind = "BrokenPipe" /\ d.pad_pkts

\* try_tx: the result of a bulk write that is not retried
tx_result(reply, len) ==
    IF reply.ok THEN (IF reply.n = len THEN Ok(0) ELSE Err("Other")) ELSE reply

\* calc_bit_timing returns Some: a (brp, tseg1, tseg2) within 5% of the bitrate
\* whose tseg1 can be split into prop_seg >= 1 and phase_seg1 >= 1
calc_bit_timing_found(bitrate, caps) ==
    /\ bitrate > 0
    /\ \E brp \in caps.brp_min..caps.brp_max :
       \E tseg1 \in caps.tseg1_min..caps.tseg1_max :
       \E tseg2 \in caps.tseg2_min..caps.tseg2_max :
          LET n == brp * (1 + tseg1 + tseg2)
              diff == IF caps.fclk_can >= bitrate * n
                      THEN caps.fclk_can - bitrate * n
                      ELSE bitrate * n - caps.fclk_can
          IN /\ tseg1 >= 2
             /\ 20 * diff <= bitrate * n

-----------------------------------------------------------------------------
(* Inputs of the USB specification *)

\* the BT_CONST block the adapter reported at open()
UsbBtConst ==
    [fclk_can |-> 8000000, tseg1_min |-> 1, tseg1_max |-> 16, tseg2_min |-> 1,
     tseg2_max |-> 8, sjw_max |-> 4, brp_min |-> 1, brp_max |-> 4, brp_inc |-> 1]

\* bitrates a caller asks for: one the adapter can do and one it cannot
UsbBitrates == {500000, 10000}

\* feature words the adapter may report
FeatureChoices ==
    {0, GS_CAN_FEATURE_PAD_PKTS_TO_MAX_PKT_SIZE,
     GS_CAN_FEATURE_PAD_PKTS_TO_MAX_PKT_SIZE + GS_CAN_FEATURE_FD}

\* frames a caller sends
TxFrames ==
    {CanFrame_new(291, <<1, 2, 3>>).frame, CanFrame_new_eff(98306, <<>>).frame}

\* bounds of the USB specification: driver operations started, transfers that
\* fail, frames the adapter sends, operations cancelled by their caller
MaxOps == 3
MaxFaults == 2
MaxDevFrames == 3
MaxCancels == 1

\* the k-th frame the adapter puts on the bus side: identifiers grow with k
UsbDevFrame(k) ==
    DevHdr(GS_CAN_ECHO_ID_UNUSED, <<0, 256 + k>>, 2, 0, "ramp", <<0, k>>)

Idle == [name |-> "idle"]

NoHist ==
    [dev_log |-> <<>>, own |-> <<>>, tx |-> <<>>, stalls |-> <<>>, rx_errs |-> <<>>,
     dev_sent |-> <<>>, rx_appended |-> <<>>, ops |-> <<>>, sent_cmds |-> <<>>,
     pad_off_at |-> 0]

None == [some |-> FALSE]
Some(v) == [some |-> TRUE, v |-> v]

-----------------------------------------------------------------------------
(* UsbEventLoop::new (driver.rs:44-68); `state` is the loop's position,    *)
(* `pending` the frames process_rx_chunk has still to send, `slot` the     *)
(* in-flight read whose completion is being handled.                       *)

EventLoop_new(out_wmax, pad_pkts_enabled) ==
    [rx_buffer |-> <<>>, last_timestamp64 |-> NoTimestamp, channel_index |-> 0,
     timestamp_enabled |-> FALSE, out_wmax |-> out_wmax,
     pad_pkts_enabled |-> pad_pkts_enabled,
     state |-> "select", pending |-> <<>>, panic_after |-> FALSE, slot |-> 0]

\* GsUsbDriver as open() returns it for an adapter that reported `features`
GsUsbDriver_open(features, out_wmax) ==
    [interface |-> 0, out_ep |-> 2, channel_index |-> 0,
     configured_bitrate |-> None, timestamp_enabled |-> FALSE, tx_counter |-> 0,
     features |-> features, out_wmax |-> out_wmax,
     pad_pkts |-> HasFlag(features, GS_CAN_FEATURE_PAD_PKTS_TO_MAX_PKT_SIZE),
     bt_const |-> UsbBtConst]

\* inflight.push of the read for `slot` (0: no read to submit)
resubmit(fl, slot) ==
    IF slot = 0 THEN fl ELSE [fl EXCEPT !.queue = Append(fl.queue, slot)]

\* no bridge process around the driver
NoBridge == [main |-> "none"]

\* no IPC traffic, no SLCAN session, no PCAN session
NoIpc == [state |-> "none"]
NoSlcan == [state |-> "none"]
NoPcan == [state |-> "none"]

\* the host side has nothing but the gs_usb driver
HostInert ==
    /\ br = NoBridge
    /\ ipc = NoIpc
    /\ sl = NoSlcan
    /\ pc = NoPcan

\* the parser specification has no adapter and no caller: the USB side is inert
UsbInert ==
    /\ cmd_q = <<>>
    /\ inflight = [queue |-> <<>>, done |-> {}]
    /\ dev = [mode |-> "START", flags |-> 0]
    /\ drv = GsUsbDriver_open(0, 32)
    /\ op = Idle
    /\ replies = <<>>
    /\ hist = NoHist
    /\ budget = [ops |-> 0, faults |-> 0, frames |-> 0, cancels |-> 0]

ParseInit ==
    \E ts \in BOOLEAN, pad \in BOOLEAN, wmax \in WMaxChoices :
        /\ ev = [EventLoop_new(wmax, pad) EXCEPT !.timestamp_enabled = ts]
        /\ wire \in Streams(MaxFrames, ts, pad, wmax) \ {<<>>}
        /\ frame_tx = <<>>
        /\ rx_log = <<>>
        /\ rx_steps = <<>>
        /\ UsbInert
        /\ HostInert

\* a bulk-in transfer completes with the next `n` bytes of the stream and the
\* loop runs handle_rx_completion(Ok(chunk))
DeliverChunk ==
    /\ ev.state = "select"
    /\ wire # <<>>
    /\ \E n \in ChunkLens \cup {Len(wire)} :
        /\ n <= Len(wire)
        /\ \E r \in {rx_completion(ev, frame_tx, SubSeq(wire, 1, n))} :
           /\ ev' = r.ev
           /\ frame_tx' = frame_tx \o r.sent
           /\ rx_log' = rx_log \o r.sent
           /\ rx_steps' = r.steps
        /\ wire' = SubSeq(wire, n + 1, Len(wire))
    /\ UNCHANGED usb_vars
    /\ UNCHANGED host_vars

\* the loop resumes from `frame_tx.send(frame).await` once the channel has room;
\* after the last frame it submits the next read for the slot it was handling
FrameSendResume ==
    /\ ev.state = "sending"
    /\ Len(frame_tx) < FrameChanCap
    /\ LET f == Head(ev.pending)
           rest == Tail(ev.pending)
           done == rest = <<>> /\ ~ev.panic_after
       IN /\ frame_tx' = Append(frame_tx, f)
          /\ rx_log' = Append(rx_log, f)
          /\ ev' = [ev EXCEPT !.pending = rest,
                              !.slot = IF done THEN 0 ELSE ev.slot,
                              !.state = IF rest # <<>> THEN "sending"
                                        ELSE IF ev.panic_after THEN "panicked"
                                        ELSE "select"]
          /\ inflight' = IF done THEN resubmit(inflight, ev.slot) ELSE inflight
    /\ UNCHANGED <<wire, rx_steps, cmd_q, dev, drv, op, replies, hist, budget>>
    /\ UNCHANGED host_vars

\* GsUsbDriver::read_frames: try_recv until the channel is empty
ReadFrames ==
    /\ op.name = "idle"
    /\ frame_tx # <<>>
    /\ frame_tx' = <<>>
    /\ UNCHANGED <<ev, wire, rx_log, rx_steps>>
    /\ UNCHANGED usb_vars
    /\ UNCHANGED host_vars

ParseNext == DeliverChunk \/ FrameSendResume \/ ReadFrames

SpecParse == ParseInit /\ [][ParseNext]_vars

\* cmd_tx.send(command) in the history: the command by id, its own transfer's
\* result still to come
Submitted(h, c) ==
    [h EXCEPT !.own = Append(@, NoReply), !.sent_cmds = Append(@, c)]

-----------------------------------------------------------------------------
(* The USB specification: the state right after GsUsbDriver::open() has     *)
(* returned (handshake done, UpdateConfig queued, eight reads submitted),  *)
(* then the event loop, the adapter and one caller of the driver.          *)

UsbInit ==
    \E features \in FeatureChoices :
        /\ ev = EventLoop_new(32, FALSE)
        /\ frame_tx = <<>>
        /\ wire = <<>>
        /\ rx_log = <<>>
        /\ rx_steps = <<>>
        /\ drv = GsUsbDriver_open(features, 32)
        /\ cmd_q = <<[id |-> 1,
                      c |-> UpdateConfig(32,
                              HasFlag(features, GS_CAN_FEATURE_PAD_PKTS_TO_MAX_PKT_SIZE))]>>
        /\ replies = <<NoReply>>
        /\ inflight = [queue |-> [i \in 1..NUM_RX_TRANSFERS |-> i], done |-> {}]
        /\ dev = [mode |-> "RESET", flags |-> 0]
        /\ op = Idle
        /\ hist = Submitted(NoHist, UpdateConfig(32,
                              HasFlag(features, GS_CAN_FEATURE_PAD_PKTS_TO_MAX_PKT_SIZE)))
        /\ budget = [ops |-> MaxOps, faults |-> MaxFaults, frames |-> MaxDevFrames,
                     cancels |-> MaxCancels]
        /\ HostInert

\* 1 if the transfer did not complete in full
Cost(r, len) == IF r = Ok(len) THEN 0 ELSE 1

\* ---- the event loop: the command arm of select! ----

\* handle_command(UpdateConfig): no transfer and no reply
LoopUpdateConfig ==
    /\ ev.state = "select"
    /\ cmd_q # <<>>
    /\ Head(cmd_q).c.kind = "UpdateConfig"
    /\ ev' = [ev EXCEPT !.out_wmax = Head(cmd_q).c.out_wmax,
                        !.pad_pkts_enabled = Head(cmd_q).c.pad_pkts_enabled]
    /\ cmd_q' = Tail(cmd_q)
    /\ UNCHANGED <<frame_tx, wire, rx_log, rx_steps, inflight, dev, drv, op, replies,
                   hist, budget>>
    /\ UNCHANGED host_vars

\* handle_command(ControlOut): one blocking control transfer, then the reply
LoopControlOut ==
    /\ ev.state = "select"
    /\ cmd_q # <<>>
    /\ Head(cmd_q).c.kind = "ControlOut"
    /\ LET id == Head(cmd_q).id
           c == Head(cmd_q).c
       IN \E r \in CtrlOutcomes(Len(c.data), budget.faults) :
            LET h == handle_control_out(ev, dev, id, c, r) IN
            /\ ev' = h.ev
            /\ dev' = h.dev
            /\ replies' = [replies EXCEPT ![id] = h.result]
            /\ hist' = [hist EXCEPT !.dev_log = @ \o h.log, !.own[id] = r]
            /\ budget' = [budget EXCEPT !.faults = @ - Cost(r, Len(c.data))]
    /\ cmd_q' = Tail(cmd_q)
    /\ UNCHANGED <<frame_tx, wire, rx_log, rx_steps, inflight, drv, op>>
    /\ UNCHANGED host_vars

\* handle_command(BulkWrite): bulk_write with its halt clearing and recovery
LoopBulkWrite ==
    /\ ev.state = "select"
    /\ cmd_q # <<>>
    /\ Head(cmd_q).c.kind = "BulkWrite"
    /\ LET id == Head(cmd_q).id
           c == Head(cmd_q).c
           len == Len(c.data)
       IN \E r \in BulkOutcomes(len, budget.faults) :
          \E r1 \in CtrlOutcomes(8, budget.faults - Cost(r, len)) :
          \E r2 \in CtrlOutcomes(8, budget.faults - Cost(r, len) - Cost(r1, 8)) :
            LET stalled == ~r.ok /\ r.kind = "BrokenPipe"
                b == bulk_write(ev, dev, id, c.endpoint, c.data, r, r1, r2)
                spent == Cost(r, len)
                         + (IF stalled THEN Cost(r1, 8) ELSE 0)
                         + (IF stalled /\ r1.ok THEN Cost(r2, 8) ELSE 0)
            IN
            \* outcomes of transfers that are not made are not choices
            /\ ~stalled => (r1 = Ok(8) /\ r2 = Ok(8))
            /\ (stalled /\ ~r1.ok) => r2 = Ok(8)
            /\ dev' = b.dev
            /\ replies' = [replies EXCEPT ![id] = b.result]
            /\ hist' = [hist EXCEPT
                  !.dev_log = @ \o b.log,
                  !.own[id] = r,
                  !.stalls = IF stalled
                             THEN Append(@, [cmd |-> id, mode_before |-> dev.mode,
                                             before |-> dev.flags, after |-> b.dev.flags,
                                             mode_after |-> b.dev.mode,
                                             recovered |-> b.recovered,
                                             reply |-> b.result])
                             ELSE @]
            /\ budget' = [budget EXCEPT !.faults = @ - spent]
    /\ cmd_q' = Tail(cmd_q)
    /\ UNCHANGED <<ev, frame_tx, wire, rx_log, rx_steps, inflight, drv, op>>
    /\ UNCHANGED host_vars

\* ---- the adapter's side of the bulk-in endpoint ----

\* the adapter answers the oldest submitted read with its next frame, laid out
\* according to the flags its channel was started with
DeviceSendsFrame ==
    /\ dev.mode = "START"
    /\ budget.frames > 0
    /\ inflight.queue # <<>>
    /\ LET k == MaxDevFrames - budget.frames + 1
           bytes == DevFrameBytes(UsbDevFrame(k),
                        HasFlag(dev.flags, GS_CAN_MODE_HW_TIMESTAMP),
                        HasFlag(dev.flags, GS_CAN_MODE_PAD_PKTS_TO_MAX_PKT_SIZE),
                        drv.out_wmax)
       IN /\ inflight' = [queue |-> Tail(inflight.queue),
                          done |-> inflight.done \cup
                                   {[slot |-> Head(inflight.queue), ok |-> TRUE,
                                     buf |-> bytes, kind |-> "none"]}]
          /\ hist' = [hist EXCEPT !.dev_sent = @ \o bytes]
    /\ budget' = [budget EXCEPT !.frames = @ - 1]
    /\ UNCHANGED <<ev, frame_tx, wire, rx_log, rx_steps, cmd_q, dev, drv, op, replies>>
    /\ UNCHANGED host_vars

\* the oldest submitted read fails (stall, disconnection)
DeviceRxFails ==
    /\ budget.faults > 0
    /\ inflight.queue # <<>>
    /\ \E kind \in BulkInErrKinds :
        inflight' = [queue |-> Tail(inflight.queue),
                     done |-> inflight.done \cup
                              {[slot |-> Head(inflight.queue), ok |-> FALSE,
                                buf |-> <<>>, kind |-> kind]}]
    /\ budget' = [budget EXCEPT !.faults = @ - 1]
    /\ UNCHANGED <<ev, frame_tx, wire, rx_log, rx_steps, cmd_q, dev, drv, op, replies,
                   hist>>
    /\ UNCHANGED host_vars

\* ---- the event loop: the bulk-in arm of select! ----

\* UsbEventLoop::handle_rx_completion, all three arms
handle_rx_completion(e, ftx, result) ==
    IF result.ok
    THEN rx_completion(e, ftx, result.buf) @@ [cleared |-> FALSE]
    ELSE IF result.kind = "NotConnected"
    THEN [ev |-> [e EXCEPT !.state = "exited"], sent |-> <<>>, steps |-> <<>>,
          cleared |-> FALSE]
    ELSE [ev |-> e, sent |-> <<>>, steps |-> <<>>, cleared |-> TRUE]

\* the `match result` of run(): handle_rx_completion is called for Ok(buf)
\* only, a failed transfer is logged and nothing else
run_rx_arm(e, ftx, result) ==
    IF result.ok
    THEN handle_rx_completion(e, ftx, result)
    ELSE [ev |-> e, sent |-> <<>>, steps |-> <<>>, cleared |-> FALSE]

\* inflight.next() yields one of the completed reads (FuturesUnordered: any of
\* them), the loop handles it and pushes a new read for the same slot
LoopRxCompletion ==
    /\ ev.state = "select"
    /\ \E t \in inflight.done : \E r \in {run_rx_arm(ev, frame_tx, t)} :
        LET after == r.ev.state
            rest == [inflight EXCEPT !.done = @ \ {t}]
        IN
        /\ ev' = [r.ev EXCEPT !.slot = IF after = "sending" THEN t.slot ELSE 0]
        /\ frame_tx' = frame_tx \o r.sent
        /\ rx_log' = rx_log \o r.sent
        /\ rx_steps' = IF t.ok THEN r.steps ELSE rx_steps
        /\ inflight' = IF after = "select" THEN resubmit(rest, t.slot) ELSE rest
        /\ hist' = [hist EXCEPT
              !.rx_appended = @ \o t.buf,
              !.rx_errs = IF t.ok THEN @
                          ELSE Append(@, [kind |-> t.kind, cleared |-> r.cleared,
                                          resubmitted |-> after = "select",
                                          running |-> after = "select"])]
    /\ UNCHANGED <<wire, cmd_q, dev, drv, op, replies, budget>>
    /\ UNCHANGED host_vars

\* ---- the caller of the driver: one operation at a time (&mut self) ----

Finished(h, name, result) ==
    [h EXCEPT !.ops = Append(@, [name |-> name, result |-> result])]

CanStart == op.name = "idle" /\ budget.ops > 0 /\ Len(cmd_q) < CmdChanCap

\* a close that sends MODE(START) with no flags
ModeStartInstead(d) ==
    ControlOut(GS_USB_BREQ_MODE, d.channel_index, d.interface,
               encode_mode(GS_CAN_MODE_START, 0))

ModeReset(d) ==
    ControlOut(GS_USB_BREQ_MODE, d.channel_index, d.interface,
               encode_mode(GS_CAN_MODE_RESET, 0))

\* enable_timestamp: TIMESTAMP with the value 1
StartEnableTimestamp ==
    /\ CanStart
    /\ LET c == ControlOut(GS_USB_BREQ_TIMESTAMP, drv.channel_index, drv.interface,
                           to_le_bytes(<<0, 1>>))
       IN /\ cmd_q' = Append(cmd_q, [id |-> Len(replies) + 1, c |-> c])
          /\ hist' = Submitted(hist, c)
    /\ op' = [name |-> "enable_timestamp", step |-> 1, wait |-> Len(replies) + 1]
    /\ replies' = Append(replies, NoReply)
    /\ budget' = [budget EXCEPT !.ops = @ - 1]
    /\ UNCHANGED <<ev, frame_tx, wire, rx_log, rx_steps, inflight, dev, drv>>
    /\ UNCHANGED host_vars

\* every arm of the match sets timestamp_enabled and returns Ok
EnableTimestampReply ==
    /\ op.name = "enable_timestamp"
    /\ replies[op.wait] # NoReply
    /\ drv' = [drv EXCEPT !.timestamp_enabled = TRUE]
    /\ hist' = Finished(hist, op.name, Ok(0))
    /\ op' = Idle
    /\ UNCHANGED <<ev, frame_tx, wire, rx_log, rx_steps, cmd_q, inflight, dev, replies,
                   budget>>
    /\ UNCHANGED host_vars

\* set_bitrate: InvalidInput without a timing, else MODE(RESET) first
StartSetBitrate ==
    /\ CanStart
    /\ \E bitrate \in UsbBitrates :
        IF calc_bit_timing_found(bitrate, drv.bt_const)
        THEN LET c == ModeReset(drv) IN
             /\ cmd_q' = Append(cmd_q, [id |-> Len(replies) + 1, c |-> c])
             /\ hist' = Submitted(hist, c)
             /\ op' = [name |-> "set_bitrate", step |-> 1, wait |-> Len(replies) + 1,
                       bitrate |-> bitrate]
             /\ replies' = Append(replies, NoReply)
        ELSE /\ hist' = Finished(hist, "set_bitrate", Err("InvalidInput"))
             /\ UNCHANGED <<cmd_q, op, replies>>
    /\ budget' = [budget EXCEPT !.ops = @ - 1]
    /\ UNCHANGED <<ev, frame_tx, wire, rx_log, rx_steps, inflight, dev, drv>>
    /\ UNCHANGED host_vars

\* after MODE(RESET): BITTIMING (20 bytes; this adapter does not interpret the
\* five timing words); after BITTIMING: configured_bitrate = Some(bitrate)
SetBitrateReply ==
    /\ op.name = "set_bitrate"
    /\ replies[op.wait] # NoReply
    /\ LET r == replies[op.wait] IN
       IF ~r.ok
       THEN /\ hist' = Finished(hist, op.name, r)
            /\ op' = Idle
            /\ UNCHANGED <<cmd_q, replies, drv>>
       ELSE IF op.step = 1
       THEN LET c == ControlOut(GS_USB_BREQ_BITTIMING, drv.channel_index,
                                drv.interface, Zeros(20))
            IN /\ Len(cmd_q) < CmdChanCap
               /\ cmd_q' = Append(cmd_q, [id |-> Len(replies) + 1, c |-> c])
               /\ hist' = Submitted(hist, c)
               /\ op' = [op EXCEPT !.step = 2, !.wait = Len(replies) + 1]
               /\ replies' = Append(replies, NoReply)
               /\ UNCHANGED drv
       ELSE /\ drv' = [drv EXCEPT !.configured_bitrate = Some(op.bitrate)]
            /\ hist' = Finished(hist, op.name, Ok(0))
            /\ op' = Idle
            /\ UNCHANGED <<cmd_q, replies>>
    /\ UNCHANGED <<ev, frame_tx, wire, rx_log, rx_steps, inflight, dev, budget>>
    /\ UNCHANGED host_vars

\* open_channel: InvalidInput without a bitrate; the flags are computed
\* before MODE(RESET) is sent
StartOpenChannel ==
    /\ CanStart
    /\ IF ~bitrate_missing(drv)
       THEN LET c == ModeReset(drv) IN
            /\ cmd_q' = Append(cmd_q, [id |-> Len(replies) + 1, c |-> c])
            /\ hist' = Submitted(hist, c)
            /\ op' = [name |-> "open_channel", step |-> 1, wait |-> Len(replies) + 1,
                      flags |-> open_channel_flags(drv)]
            /\ replies' = Append(replies, NoReply)
       ELSE /\ hist' = Finished(hist, "open_channel", Err("InvalidInput"))
            /\ UNCHANGED <<cmd_q, op, replies>>
    /\ budget' = [budget EXCEPT !.ops = @ - 1]
    /\ UNCHANGED <<ev, frame_tx, wire, rx_log, rx_steps, inflight, dev, drv>>
    /\ UNCHANGED host_vars

\* open_listen_only: InvalidInput without a bitrate; open_channel_with_flags
\* computes the flags, LISTEN_ONLY among them, before MODE(RESET) is sent
StartOpenListenOnly ==
    /\ CanStart
    /\ IF ~bitrate_missing(drv)
       THEN LET c == ModeReset(drv) IN
            /\ cmd_q' = Append(cmd_q, [id |-> Len(replies) + 1, c |-> c])
            /\ hist' = Submitted(hist, c)
            /\ op' = [name |-> "open_listen_only", step |-> 1,
                      wait |-> Len(replies) + 1,
                      flags |-> open_channel_with_flags(
                                    drv, Some(GS_CAN_MODE_LISTEN_ONLY))]
            /\ replies' = Append(replies, NoReply)
       ELSE /\ hist' = Finished(hist, "open_listen_only", Err("InvalidInput"))
            /\ UNCHANGED <<cmd_q, op, replies>>
    /\ budget' = [budget EXCEPT !.ops = @ - 1]
    /\ UNCHANGED <<ev, frame_tx, wire, rx_log, rx_steps, inflight, dev, drv>>
    /\ UNCHANGED host_vars

\* open_channel_inner and open_channel_with_flags after MODE(RESET):
\* MODE(START, flags); then the result
OpenChannelReply ==
    /\ op.name \in {"open_channel", "open_listen_only"}
    /\ replies[op.wait] # NoReply
    /\ LET r == replies[op.wait] IN
       IF r.ok /\ op.step = 1
       THEN LET c == ControlOut(GS_USB_BREQ_MODE, drv.channel_index, drv.interface,
                                encode_mode(GS_CAN_MODE_START, op.flags))
            IN /\ Len(cmd_q) < CmdChanCap
               /\ cmd_q' = Append(cmd_q, [id |-> Len(replies) + 1, c |-> c])
               /\ hist' = Submitted(hist, c)
               /\ op' = [op EXCEPT !.step = 2, !.wait = Len(replies) + 1]
               /\ replies' = Append(replies, NoReply)
       ELSE /\ hist' = Finished(hist, op.name, IF r.ok THEN Ok(0) ELSE r)
            /\ op' = Idle
            /\ UNCHANGED <<cmd_q, replies>>
    /\ UNCHANGED <<ev, frame_tx, wire, rx_log, rx_steps, inflight, dev, drv, budget>>
    /\ UNCHANGED host_vars

\* close_channel_inner: MODE(RESET)
StartCloseChannel ==
    /\ CanStart
    /\ LET c == ModeReset(drv) IN
       /\ cmd_q' = Append(cmd_q, [id |-> Len(replies) + 1, c |-> c])
       /\ hist' = Submitted(hist, c)
    /\ op' = [name |-> "close_channel", step |-> 1, wait |-> Len(replies) + 1]
    /\ replies' = Append(replies, NoReply)
    /\ budget' = [budget EXCEPT !.ops = @ - 1]
    /\ UNCHANGED <<ev, frame_tx, wire, rx_log, rx_steps, inflight, dev, drv>>
    /\ UNCHANGED host_vars

CloseChannelReply ==
    /\ op.name = "close_channel"
    /\ replies[op.wait] # NoReply
    /\ hist' = Finished(hist, op.name,
                        IF replies[op.wait].ok THEN Ok(0) ELSE replies[op.wait])
    /\ op' = Idle
    /\ UNCHANGED <<ev, frame_tx, wire, rx_log, rx_steps, cmd_q, inflight, dev, drv,
                   replies, budget>>
    /\ UNCHANGED host_vars

\* send_frame: encode (the echo id takes tx_counter), pad, first bulk write
StartSendFrame ==
    /\ CanStart
    /\ \E frame \in TxFrames :
        LET buf == maybe_pad_tx(drv, encode_frame(drv, frame))
            c == BulkWrite(drv.out_ep, buf)
            id == Len(replies) + 1
        IN /\ cmd_q' = Append(cmd_q, [id |-> id, c |-> c])
           /\ hist' = [Submitted(hist, c) EXCEPT
                 !.tx = Append(@, [frame |-> frame, pad |-> drv.pad_pkts,
                                   writes |-> <<id>>, result |-> NoReply])]
           /\ op' = [name |-> "send_frame", step |-> 1, wait |-> id, frame |-> frame,
                     len |-> Len(buf)]
    /\ drv' = [drv EXCEPT !.tx_counter = @ + 1]
    /\ replies' = Append(replies, NoReply)
    /\ budget' = [budget EXCEPT !.ops = @ - 1]
    /\ UNCHANGED <<ev, frame_tx, wire, rx_log, rx_steps, inflight, dev>>
    /\ UNCHANGED host_vars

\* try_tx after a reply: the retry arm (padding off, unpadded fallback, second
\* bulk write) or the result
SendFrameReply ==
    /\ op.name = "send_frame"
    /\ replies[op.wait] # NoReply
    /\ LET r == replies[op.wait]
           n == Len(hist.tx)
       IN
       IF op.step = 1 /\ tx_retries(drv, r)
       THEN LET fallback == encode_frame(drv, op.frame)
                c == BulkWrite(drv.out_ep, fallback)
                id == Len(replies) + 1
            IN /\ Len(cmd_q) < CmdChanCap
               /\ drv' = [drv EXCEPT !.pad_pkts = FALSE, !.tx_counter = @ + 1]
               /\ cmd_q' = Append(cmd_q, [id |-> id, c |-> c])
               /\ hist' = [Submitted([hist EXCEPT !.pad_off_at = op.wait], c) EXCEPT
                     !.tx[n].writes = Append(@, id)]
               /\ op' = [op EXCEPT !.step = 2, !.wait = id, !.len = Len(fallback)]
               /\ replies' = Append(replies, NoReply)
       ELSE /\ hist' = [Finished(hist, op.name, tx_result(r, op.len)) EXCEPT
                  !.tx[n].result = tx_result(r, op.len)]
            /\ op' = Idle
            /\ UNCHANGED <<cmd_q, replies, drv>>
    /\ UNCHANGED <<ev, frame_tx, wire, rx_log, rx_steps, inflight, dev, budget>>
    /\ UNCHANGED host_vars

\* the caller drops the operation's future while it waits for its reply (task
\* abort); the command it has sent stays in the queue
CancelOp ==
    /\ op.name # "idle"
    /\ budget.cancels > 0
    /\ op' = Idle
    /\ hist' = LET h == Finished(hist, op.name, Err("cancelled")) IN
               IF op.name = "send_frame"
               THEN [h EXCEPT !.tx[Len(hist.tx)].result = Err("cancelled")]
               ELSE h
    /\ budget' = [budget EXCEPT !.cancels = @ - 1]
    /\ UNCHANGED <<ev, frame_tx, wire, rx_log, rx_steps, cmd_q, inflight, dev, drv,
                   replies>>
    /\ UNCHANGED host_vars

\* the command side: the event loop's command arm and the caller of the driver
UsbNext ==
    \/ LoopUpdateConfig \/ LoopControlOut \/ LoopBulkWrite
    \/ StartEnableTimestamp \/ EnableTimestampReply
    \/ StartSetBitrate \/ SetBitrateReply
    \/ StartOpenChannel \/ StartOpenListenOnly \/ OpenChannelReply
    \/ StartCloseChannel \/ CloseChannelReply
    \/ StartSendFrame \/ SendFrameReply
    \/ CancelOp

SpecUsb == UsbInit /\ [][UsbNext]_vars

\* the bulk-in side: a session whose channel has been started (set_bitrate,
\* optionally enable_timestamp, open_channel all answered Ok), the adapter
\* sending frames and failing reads, the loop's bulk-in arm, read_frames
RxInit ==
    \E features \in FeatureChoices, ts \in BOOLEAN :
        LET d == [GsUsbDriver_open(features, 32) EXCEPT
                      !.timestamp_enabled = ts,
                      !.configured_bitrate = Some(500000)]
        IN
        /\ drv = d
        /\ ev = [EventLoop_new(32, d.pad_pkts) EXCEPT !.timestamp_enabled = ts]
        /\ dev = [mode |-> "START", flags |-> open_channel_flags(d)]
        /\ frame_tx = <<>>
        /\ wire = <<>>
        /\ rx_log = <<>>
        /\ rx_steps = <<>>
        /\ cmd_q = <<>>
        /\ replies = <<>>
        /\ inflight = [queue |-> [i \in 1..NUM_RX_TRANSFERS |-> i], done |-> {}]
        /\ op = Idle
        /\ hist = NoHist
        /\ budget = [ops |-> 0, faults |-> MaxFaults, frames |-> MaxDevFrames,
                     cancels |-> 0]
        /\ HostInert

RxNext ==
    \/ DeviceSendsFrame \/ DeviceRxFails
    \/ LoopRxCompletion \/ FrameSendResume
    \/ ReadFrames

SpecRx == RxInit /\ [][RxNext]_vars

-----------------------------------------------------------------------------
(* Claims about the RX parser, checked under SpecParse *)

\* C4: every frame the RX parser emits was built from a header whose echo_id is
\* 0xFFFFFFFF and whose channel byte equals channel_index: no TX echo and no
\* frame of another channel reaches the user.
C4_OnlyOwnRxFramesEmitted ==
    \A i \in DOMAIN rx_log :
        /\ rx_log[i].echo_id = GS_CAN_ECHO_ID_UNUSED
        /\ rx_log[i].chan = rx_log[i].channel_index

\* one chunk in which the parser skipped a whole frame (an echo) and emitted another
C4_Witness ==
    /\ rx_log # <<>>
    /\ \E i, j \in DOMAIN rx_steps :
          rx_steps[i].why = "skip" /\ rx_steps[j].why = "frame"

\* C5: for a stream of complete device frames delivered in arbitrary chunks, each
\* parse step consumes at least one byte (or waits), the parser does not stop,
\* and once the whole stream has been delivered the RX accumulator is empty.
C5_ParserConsumesEveryByte ==
    /\ \A i \in DOMAIN rx_steps : rx_steps[i].consumed >= 1
    /\ ev.state # "panicked"
    /\ (wire = <<>> /\ ev.state = "select") => ev.rx_buffer = <<>>

-----------------------------------------------------------------------------
(* Claims about the bulk-in side, checked under SpecRx *)

\* identifiers of the frames offered to the frame channel, in order
RxIds == [i \in DOMAIN rx_log |-> rx_log[i].frame.id]

\* C2: the bytes appended to the RX accumulator are a prefix of the bytes the
\* adapter sent, in the adapter's order, and the frames handed to read_frames
\* come in the order the adapter sent them (its identifiers grow), whichever
\* completed read the loop picks up first.
C2_RxBytesInDeviceOrder ==
    /\ Len(hist.rx_appended) <= Len(hist.dev_sent)
    /\ hist.rx_appended = SubSeq(hist.dev_sent, 1, Len(hist.rx_appended))
    /\ \A i, j \in DOMAIN rx_log : i < j => RxIds[i] < RxIds[j]

\* C10: a bulk-in completion with NotConnected ends the loop and its read is
\* not resubmitted; a completion with any other error has the halt on the IN
\* endpoint cleared and its read resubmitted, and the loop keeps running.
C10_BulkInErrorHandling ==
    \A i \in DOMAIN hist.rx_errs :
        LET x == hist.rx_errs[i] IN
        IF x.kind = "NotConnected"
        THEN ~x.running /\ ~x.resubmitted
        ELSE x.cleared /\ x.resubmitted /\ x.running

-----------------------------------------------------------------------------
(* Claims about the command side, checked under SpecUsb *)

IsModeStart(x) ==
    /\ x.what = "control_out"
    /\ "mode" \in DOMAIN x.detail
    /\ x.detail.mode = GS_CAN_MODE_START

\* length of an unpadded TX packet for this adapter
UnpaddedLen == IF HasFlag(drv.features, GS_CAN_FEATURE_FD) THEN GS_TX_FRAME_SIZE ELSE 20

\* C3: the adapter sees the commands' transfers in the order the commands were
\* enqueued, one command at a time, and the reply a command receives is the
\* result of that command's own transfer.
C3_CommandsInOrderOwnReply ==
    /\ \A i, j \in DOMAIN hist.dev_log :
          i < j => hist.dev_log[i].cmd <= hist.dev_log[j].cmd
    /\ \A id \in DOMAIN replies :
          /\ replies[id] # NoReply => replies[id] = hist.own[id]
          /\ (hist.own[id] # NoReply /\ hist.sent_cmds[id].kind # "UpdateConfig")
                => replies[id] # NoReply

\* C7: a send_frame whose first bulk write stalls (broken pipe) with padding
\* enabled issues exactly one further write, the unpadded encoding of the same
\* frame, and succeeds iff that write is complete; any other send_frame issues
\* one write only and succeeds iff it is complete.
C7_StalledPaddedWriteRetriedOnce ==
    \A k \in DOMAIN hist.tx :
        LET t == hist.tx[k]
            w1 == t.writes[1]
            stalled == t.pad /\ hist.own[w1] = Err("BrokenPipe")
        IN
        (t.result # NoReply /\ t.result # Err("cancelled")) =>
            /\ Len(t.writes) <= 2
            /\ stalled =>
                /\ Len(t.writes) = 2
                /\ LET data == hist.sent_cmds[t.writes[2]].data IN
                   /\ Len(data) = UnpaddedLen
                   /\ SubSeq(data, 5, Len(data))
                        = SubSeq(encode_frame(drv, t.frame), 5, Len(data))
                   /\ t.result.ok <=> hist.own[t.writes[2]] = Ok(Len(data))
            /\ ~stalled =>
                /\ Len(t.writes) = 1
                /\ t.result.ok <=>
                      hist.own[w1] = Ok(Len(hist.sent_cmds[w1].data))

\* C8: once a stalled padded write has switched padding off, it stays off:
\* every bulk write of a later command is unpadded and every later MODE(START)
\* the adapter sees leaves PAD_PKTS_TO_MAX_PKT_SIZE out.
C8_PaddingStaysDisabled ==
    hist.pad_off_at # 0 =>
        /\ ~drv.pad_pkts
        /\ \A i \in DOMAIN hist.dev_log :
              LET x == hist.dev_log[i] IN
              x.cmd > hist.pad_off_at =>
                  /\ x.what = "bulk_write" => x.detail.len = UnpaddedLen
                  /\ IsModeStart(x) =>
                        ~HasFlag(x.detail.flags, GS_CAN_MODE_PAD_PKTS_TO_MAX_PKT_SIZE)

\* padding was switched off by a stall, and afterwards the adapter saw a bulk
\* write and the MODE(START) of an open_channel
C8_Witness ==
    /\ hist.pad_off_at # 0
    /\ \E i, j \in DOMAIN hist.dev_log :
          /\ hist.dev_log[i].cmd > hist.pad_off_at
          /\ hist.dev_log[i].what = "bulk_write"
          /\ hist.dev_log[j].cmd > hist.pad_off_at
          /\ hist.dev_log[j].src = "command"
          /\ IsModeStart(hist.dev_log[j])
          /\ hist.dev_log[j].result.ok

\* C9: a stall recovery that went through leaves the channel started with the
\* flags it had before the stall, and the caller gets the broken-pipe error.
C9_StallRecoveryKeepsFlags ==
    \A i \in DOMAIN hist.stalls :
        LET x == hist.stalls[i] IN
        (x.recovered /\ x.mode_before = "START") =>
            /\ x.mode_after = "START"
            /\ x.after = x.before
            /\ x.reply = Err("BrokenPipe")

-----------------------------------------------------------------------------
(* canserver: main, forward_pipe_to_can ("in"), forward_can_to_pipe ("out") *)
(* and the Arc<Mutex<Box<dyn CanDriver>>> they share. The driver is known   *)
(* by how its read_frames behaves: the gs_usb and PCAN ones return what is  *)
(* queued, the SLCAN one awaits the serial port.                            *)

Drivers == {"gs_usb", "pcan", "slcan"}

\* SlcanDriver::read_frames awaits reader.read(); the others poll
read_waits(driver) == driver = "slcan"

\* GsUsbDriver::read_frames always returns Ok
read_can_fail(driver) == driver # "gs_usb"

\* the kinds of the errors read_frames returns: PcanDriver for a CAN_Read
\* status other than OK and QRCVEMPTY (Other) and for a frame CanFrame
\* rejects (InvalidData), SlcanDriver what reader.read() returns
read_error_kinds(driver) ==
    CASE driver = "pcan" -> {"Other", "InvalidData"}
      [] driver = "slcan" -> {"TimedOut", "Other"}
      [] OTHER -> {}

NoError == [kind |-> "none", fatal |-> FALSE]

\* bounds of the bridge specification: frames the IPC client writes, times
\* the serial port delivers bytes, read_frames calls that fail
MaxClientFrames == 2
MaxBusEvents == 1
MaxReadErrors == 1

usb_all == <<ev, frame_tx, wire, rx_log, rx_steps, cmd_q, inflight, dev, drv, op, replies, hist, budget>>

BridgeInit ==
    /\ \E driver \in Drivers :
        br = [driver |-> driver,
              main |-> "select", tin |-> "recv", tout |-> "want_lock",
              owner |-> "none", waitq |-> <<"out">>,
              jh_in |-> "armed", jh_out |-> "armed",
              abort_in |-> FALSE, abort_out |-> FALSE,
              pipe_in |-> 0, pipe_open |-> TRUE, serial |-> 0,
              sends |-> 0, send_errs |-> 0, out_err |-> NoError,
              closes |-> 0, close_held |-> {},
              client |-> MaxClientFrames, bus |-> MaxBusEvents,
              errors |-> MaxReadErrors]
    /\ ipc = NoIpc
    /\ sl = NoSlcan
    /\ pc = NoPcan
    /\ ev = EventLoop_new(32, FALSE)
    /\ frame_tx = <<>>
    /\ wire = <<>>
    /\ rx_log = <<>>
    /\ rx_steps = <<>>
    /\ UsbInert

\* the process is alive: main has neither returned nor panicked
Running == br.main \notin {"done", "panicked"}

TaskOver(t) == t \in {"ended", "cancelled"}

\* tasks that are inside the critical section of the driver mutex
Holders == {t \in {"in", "out"} : br.owner = t}

RemoveFrom(q, who) == SelectSeq(q, LAMBDA x : x # who)

\* ---- the IPC side and the bus ----

\* the IPC reader passes a client's packet on to rx_in_pipe
ClientSends ==
    /\ Running /\ br.pipe_open /\ br.client > 0
    /\ br' = [br EXCEPT !.pipe_in = @ + 1, !.client = @ - 1]
    /\ UNCHANGED <<usb_all, ipc, sl, pc>>

\* start_ipc_reader returns (pipe error): the sender of rx_in_pipe is dropped
ReaderEnds ==
    /\ Running /\ br.pipe_open
    /\ br' = [br EXCEPT !.pipe_open = FALSE]
    /\ UNCHANGED <<usb_all, ipc, sl, pc>>

\* bytes arrive on the serial port of an SLCAN adapter
BusData ==
    /\ Running /\ br.bus > 0
    /\ br' = [br EXCEPT !.serial = @ + 1, !.bus = @ - 1]
    /\ UNCHANGED <<usb_all, ipc, sl, pc>>

\* ---- forward_pipe_to_can ----

\* rx_in_pipe.recv() yields a packet; one that decodes goes on to lock()
InRecv ==
    /\ Running /\ br.tin = "recv" /\ br.pipe_in > 0
    /\ \E decodes \in BOOLEAN :
        br' = IF decodes
              THEN [br EXCEPT !.pipe_in = @ - 1, !.tin = "want_lock",
                              !.waitq = Append(@, "in")]
              ELSE [br EXCEPT !.pipe_in = @ - 1]
    /\ UNCHANGED <<usb_all, ipc, sl, pc>>

\* recv() yields None: the loop and the task end
InEnds ==
    /\ Running /\ br.tin = "recv" /\ br.pipe_in = 0 /\ ~br.pipe_open
    /\ br' = [br EXCEPT !.tin = "ended"]
    /\ UNCHANGED <<usb_all, ipc, sl, pc>>

\* driver.lock().await is granted (first in line) and send_frame is called
InLocks ==
    /\ Running /\ br.tin = "want_lock"
    /\ br.owner = "none" /\ br.waitq # <<>> /\ Head(br.waitq) = "in"
    /\ br' = [br EXCEPT !.owner = "in", !.waitq = Tail(@), !.tin = "send",
                        !.sends = @ + 1]
    /\ UNCHANGED <<usb_all, ipc, sl, pc>>

\* send_frame returns, an error is logged; the guard `d` is dropped at the
\* end of the block and the loop goes on
InSendDone ==
    /\ Running /\ br.tin = "send"
    /\ \E failed \in BOOLEAN :
        br' = [br EXCEPT !.owner = "none", !.tin = "recv",
                         !.send_errs = IF failed THEN @ + 1 ELSE @]
    /\ UNCHANGED <<usb_all, ipc, sl, pc>>

\* ---- forward_can_to_pipe ----

\* driver.lock().await is granted and read_frames is called on the guard
OutLocks ==
    /\ Running /\ br.tout = "want_lock"
    /\ br.owner = "none" /\ br.waitq # <<>> /\ Head(br.waitq) = "out"
    /\ br' = [br EXCEPT !.owner = "out", !.waitq = Tail(@), !.tout = "read"]
    /\ UNCHANGED <<usb_all, ipc, sl, pc>>

\* read_frames returns Ok: the frames are passed on with try_send, the guard
\* (a temporary of the match scrutinee) is dropped and the loop calls lock()
OutReadOk ==
    /\ Running /\ br.tout = "read"
    /\ read_waits(br.driver) => br.serial > 0
    /\ br' = [br EXCEPT !.owner = "none", !.tout = "want_lock",
                        !.waitq = Append(@, "out"), !.serial = 0]
    /\ UNCHANGED <<usb_all, ipc, sl, pc>>

\* read_frames returns Err, of a kind the driver has, for a condition that
\* is fatal (the adapter is gone) or is not (a bus warning, a timeout):
\* break, the task ends
OutReadErr ==
    /\ Running /\ br.tout = "read"
    /\ read_can_fail(br.driver) /\ br.errors > 0
    /\ \E kind \in read_error_kinds(br.driver), fatal \in BOOLEAN :
        br' = [br EXCEPT !.owner = "none", !.tout = "ended", !.errors = @ - 1,
                         !.out_err = [kind |-> kind, fatal |-> fatal]]
    /\ UNCHANGED <<usb_all, ipc, sl, pc>>

\* ---- main ----

\* select!: ctrl_c() completes
MainCtrlC ==
    /\ br.main = "select"
    /\ br' = [br EXCEPT !.main = "abort"]
    /\ UNCHANGED <<usb_all, ipc, sl, pc>>

\* select!: `&mut task_in` completes; the JoinHandle has given its output
MainSeesInEnd ==
    /\ br.main = "select" /\ TaskOver(br.tin)
    /\ br' = [br EXCEPT !.main = "abort", !.jh_in = "consumed"]
    /\ UNCHANGED <<usb_all, ipc, sl, pc>>

\* select!: `&mut task_out` completes
MainSeesOutEnd ==
    /\ br.main = "select" /\ TaskOver(br.tout)
    /\ br' = [br EXCEPT !.main = "abort", !.jh_out = "consumed"]
    /\ UNCHANGED <<usb_all, ipc, sl, pc>>

\* task_in.abort(); task_out.abort(); then the timeout block is entered
MainAborts ==
    /\ br.main = "abort"
    /\ br' = [br EXCEPT !.abort_in = TRUE, !.abort_out = TRUE, !.main = "join_in"]
    /\ UNCHANGED <<usb_all, ipc, sl, pc>>

\* an aborted task is dropped at the await it is suspended in: its guard is
\* released and its place in the queue of the mutex given up
InCancelled ==
    /\ Running /\ br.abort_in /\ ~TaskOver(br.tin)
    /\ br' = [br EXCEPT !.tin = "cancelled",
                        !.owner = IF @ = "in" THEN "none" ELSE @,
                        !.waitq = RemoveFrom(@, "in")]
    /\ UNCHANGED <<usb_all, ipc, sl, pc>>

\* read_frames of a polling driver has no await to be dropped at
OutCancelled ==
    /\ Running /\ br.abort_out /\ ~TaskOver(br.tout)
    /\ br.tout = "read" => read_waits(br.driver)
    /\ br' = [br EXCEPT !.tout = "cancelled",
                        !.owner = IF @ = "out" THEN "none" ELSE @,
                        !.waitq = RemoveFrom(@, "out")]
    /\ UNCHANGED <<usb_all, ipc, sl, pc>>

\* `task_in.await` in the timeout block: polling a JoinHandle that has given
\* its output already panics
MainJoinsIn ==
    /\ br.main = "join_in" /\ TaskOver(br.tin)
    /\ br' = IF br.jh_in = "consumed"
             THEN [br EXCEPT !.main = "panicked"]
             ELSE [br EXCEPT !.main = "join_out", !.jh_in = "consumed"]
    /\ UNCHANGED <<usb_all, ipc, sl, pc>>

\* `task_out.await`, then driver.lock() is called
MainJoinsOut ==
    /\ br.main = "join_out" /\ TaskOver(br.tout)
    /\ br' = IF br.jh_out = "consumed"
             THEN [br EXCEPT !.main = "panicked"]
             ELSE [br EXCEPT !.main = "want_lock", !.jh_out = "consumed",
                             !.waitq = Append(@, "main")]
    /\ UNCHANGED <<usb_all, ipc, sl, pc>>

\* the 200 ms of the timeout pass first
MainJoinTimeout ==
    /\ br.main \in {"join_in", "join_out"}
    /\ br' = [br EXCEPT !.main = "want_lock", !.waitq = Append(@, "main")]
    /\ UNCHANGED <<usb_all, ipc, sl, pc>>

\* driver.lock().await is granted and close_channel is called
MainLocksAndCloses ==
    /\ br.main = "want_lock"
    /\ br.owner = "none" /\ br.waitq # <<>> /\ Head(br.waitq) = "main"
    /\ br' = [br EXCEPT !.owner = "main", !.waitq = Tail(@), !.main = "closing",
                        !.closes = @ + 1, !.close_held = Holders]
    /\ UNCHANGED <<usb_all, ipc, sl, pc>>

\* close_channel returns, main returns Ok(())
MainReturns ==
    /\ br.main = "closing"
    /\ br' = [br EXCEPT !.owner = "none", !.main = "done"]
    /\ UNCHANGED <<usb_all, ipc, sl, pc>>

BridgeNext ==
    \/ ClientSends \/ ReaderEnds \/ BusData
    \/ InRecv \/ InEnds \/ InLocks \/ InSendDone
    \/ OutLocks \/ OutReadOk \/ OutReadErr
    \/ MainCtrlC \/ MainSeesInEnd \/ MainSeesOutEnd \/ MainAborts
    \/ InCancelled \/ OutCancelled
    \/ MainJoinsIn \/ MainJoinsOut \/ MainJoinTimeout
    \/ MainLocksAndCloses \/ MainReturns

SpecBridge == BridgeInit /\ [][BridgeNext]_vars

-----------------------------------------------------------------------------
(* Claims about the bridge, checked under SpecBridge *)

\* C1: once shutdown has started, close_channel is invoked exactly once (main
\* does not end without it), and when it is invoked neither forwarding task
\* is inside the driver lock.
C1_CloseOnceAfterRelease ==
    /\ br.closes <= 1
    /\ br.main \in {"done", "panicked"} => br.closes = 1
    /\ br.close_held = {}

\* C6: the outbound task does not hold the driver lock while its read_frames
\* waits for data to be received: with the bus idle the lock is free for the
\* inbound task's send_frame.
C6_OutboundNeverWaitsHoldingLock ==
    ~(/\ br.owner = "out"
      /\ br.tout = "read"
      /\ read_waits(br.driver)
      /\ br.serial = 0)

-----------------------------------------------------------------------------
(* The IPC codec: bincode (standard configuration) over serde's view of    *)
(* crosscan's CanFrame, both external crates. Integers are varints, a      *)
(* Vec<u8> is its length and its bytes, a bool is one byte 0 or 1, an      *)
(* Option is a tag byte and the value.                                     *)

\* bincode's varint of an unsigned integer below 2^32
varint(u) ==
    IF u < 251 THEN <<u>>
    ELSE IF u < 65536 THEN <<251, u % 256, u \div 256>>
    ELSE <<252, u % 256, (u \div 256) % 256, (u \div 65536) % 256, u \div 16777216>>

\* the varint at position p (one-based) of bytes, or an error
read_varint(bytes, p) ==
    IF Len(bytes) < p THEN [ok |-> FALSE]
    ELSE IF bytes[p] < 251 THEN [ok |-> TRUE, v |-> bytes[p], next |-> p + 1]
    ELSE IF bytes[p] = 251
    THEN IF Len(bytes) < p + 2 THEN [ok |-> FALSE]
         ELSE [ok |-> TRUE, v |-> bytes[p + 1] + 256 * bytes[p + 2], next |-> p + 3]
    ELSE IF bytes[p] = 252
    THEN IF Len(bytes) < p + 4 \/ bytes[p + 4] >= 128 THEN [ok |-> FALSE]
         ELSE [ok |-> TRUE,
               v |-> bytes[p + 1] + 256 * bytes[p + 2] + 65536 * bytes[p + 3]
                        + 16777216 * bytes[p + 4],
               next |-> p + 5]
    ELSE [ok |-> FALSE]

BoolByte(b) == IF b THEN 1 ELSE 0

\* bincode::serde::encode_to_vec(frame, standard())
encode_to_vec(f) ==
    varint(f.id) \o <<Len(f.data)>> \o f.data
        \o <<BoolByte(f.extended), BoolByte(f.rtr), BoolByte(f.error), f.dlc>>
        \o (IF f.timestamp.some
            THEN <<1>> \o to_le_bytes(f.timestamp.low) \o to_le_bytes(<<0, f.timestamp.upper>>)
            ELSE <<0>>)

DecodeErr == [ok |-> FALSE]

\* the fields after the payload, at position q
decode_tail(line, id, data, q) ==
    IF Len(line) < q + 4 THEN DecodeErr
    ELSE IF line[q] > 1 \/ line[q + 1] > 1 \/ line[q + 2] > 1 \/ line[q + 4] > 1
    THEN DecodeErr
    ELSE IF line[q + 4] = 1 /\ Len(line) < q + 12 THEN DecodeErr
    ELSE [ok |-> TRUE,
          frame |-> [id |-> id, extended |-> line[q] = 1, rtr |-> line[q + 1] = 1,
                     error |-> line[q + 2] = 1, dlc |-> line[q + 3], data |-> data,
                     timestamp |->
                        IF line[q + 4] = 1
                        THEN [some |-> TRUE, upper |-> le32(line, q + 8)[2],
                              low |-> le32(line, q + 4)]
                        ELSE NoTimestamp],
          used |-> IF line[q + 4] = 1 THEN q + 12 ELSE q + 4]

\* bincode::serde::decode_from_slice::<CanFrame, _>(&line, standard()): the
\* frame is read from the first byte of the slice; what follows it is left
decode_from_slice(line) ==
    LET id == read_varint(line, 1) IN
    IF ~id.ok THEN DecodeErr
    ELSE LET n == read_varint(line, id.next) IN
         IF ~n.ok \/ Len(line) < n.next + n.v - 1 THEN DecodeErr
         ELSE decode_tail(line, id.v, SubSeq(line, n.next, n.next + n.v - 1),
                          n.next + n.v)

\* a message of the IPC envelope: one byte of length, then the payload
ipc_message(f) == <<Len(encode_to_vec(f))>> \o encode_to_vec(f)

-----------------------------------------------------------------------------
(* canserver, inbound path: an IPC client writes messages to the pipe      *)
(* can_NAME_in, start_ipc_reader passes what each read_buf returns on to   *)
(* rx_in_pipe, forward_pipe_to_can decodes it and calls send_frame.        *)

\* bounds: messages the client writes; capacity of rx_in_pipe
\* (mpsc::channel::<Vec<u8>>(100)), scaled down
MaxMsgs == 2
IpcQueueCap == 2

\* the message sequences a client writes
RECURSIVE MsgSeqs(_)
MsgSeqs(n) ==
    IF n = 0 THEN {<<>>}
    ELSE MsgSeqs(n - 1) \cup {Append(q, f) : q \in MsgSeqs(n - 1), f \in TxFrames}

\* the state of the forwarding data paths after spawn_ipc_tasks; the client
\* writes its messages in the envelope (prefixed) or as the bare payload
IpcInit(todo, prefixed) ==
    [state |-> "forwarding", prefixed |-> prefixed,
     todo |-> todo, written |-> <<>>, pipe |-> <<>>,
     rx_in_pipe |-> <<>>, tin |-> "recv", sent |-> <<>>]

IpcInInit ==
    /\ \E todo \in MsgSeqs(MaxMsgs) \ {<<>>}, prefixed \in BOOLEAN :
          ipc = IpcInit(todo, prefixed)
    /\ br = NoBridge
    /\ sl = NoSlcan
    /\ pc = NoPcan
    /\ ev = EventLoop_new(32, FALSE)
    /\ frame_tx = <<>>
    /\ wire = <<>>
    /\ rx_log = <<>>
    /\ rx_steps = <<>>
    /\ UsbInert

\* the client writes its next message to the pipe
ClientWrites ==
    /\ ipc.todo # <<>>
    /\ ipc' = [ipc EXCEPT !.todo = Tail(@),
                          !.written = Append(@, Head(ipc.todo)),
                          !.pipe = @ \o (IF ipc.prefixed
                                          THEN ipc_message(Head(ipc.todo))
                                          ELSE encode_to_vec(Head(ipc.todo)))]
    /\ UNCHANGED <<usb_all, br, sl, pc>>

\* start_ipc_reader: read_buf returns some of the bytes in the pipe and the
\* Vec read is sent to rx_in_pipe
ReaderReadBuf ==
    /\ ipc.pipe # <<>>
    /\ Len(ipc.rx_in_pipe) < IpcQueueCap
    /\ \E n \in 1..Len(ipc.pipe) :
        ipc' = [ipc EXCEPT !.pipe = SubSeq(@, n + 1, Len(@)),
                           !.rx_in_pipe = Append(@, SubSeq(ipc.pipe, 1, n))]
    /\ UNCHANGED <<usb_all, br, sl, pc>>

\* forward_pipe_to_can: recv() yields a Vec; one that decodes goes on to
\* lock() and send_frame, one that does not is left out
InRecvLine ==
    /\ ipc.tin = "recv"
    /\ ipc.rx_in_pipe # <<>>
    /\ \E r \in {decode_from_slice(Head(ipc.rx_in_pipe))} :
        ipc' = IF r.ok
               THEN [ipc EXCEPT !.rx_in_pipe = Tail(@), !.tin = "send",
                                !.sent = Append(@, r.frame)]
               ELSE [ipc EXCEPT !.rx_in_pipe = Tail(@)]
    /\ UNCHANGED <<usb_all, br, sl, pc>>

\* send_frame returns (its error is logged), the guard is dropped
InSendFrameDone ==
    /\ ipc.tin = "send"
    /\ ipc' = [ipc EXCEPT !.tin = "recv"]
    /\ UNCHANGED <<usb_all, br, sl, pc>>

IpcInNext == ClientWrites \/ ReaderReadBuf \/ InRecvLine \/ InSendFrameDone

SpecIpcIn == IpcInInit /\ [][IpcInNext]_vars

\* C11: for a client that writes length-prefixed messages, send_frame is
\* called once per message written, in the order written, with the frame the
\* message encodes: the frames passed to send_frame are always a prefix of the
\* frames written, and all of them once every byte written has been read and
\* forwarded.
C11_OneSendPerMessageInOrder ==
    ipc.prefixed =>
    /\ Len(ipc.sent) <= Len(ipc.written)
    /\ ipc.sent = SubSeq(ipc.written, 1, Len(ipc.sent))
    /\ (ipc.todo = <<>> /\ ipc.pipe = <<>> /\ ipc.rx_in_pipe = <<>>)
          => ipc.sent = ipc.written

-----------------------------------------------------------------------------
(* canserver, outbound path: forward_can_to_pipe passes the frames that    *)
(* read_frames returns to tx_out_pipe, start_ipc_writer takes them from    *)
(* there once a client is connected to can_NAME_out.                       *)

\* bounds: frames the driver returns in all; writer disconnections
MaxBusFrames == 4
MaxWriterFaults == 1

\* frames a driver's read_frames returns
OutFrames ==
    {[CanFrame_new(291, <<1, 2, 3>>).frame
        EXCEPT !.timestamp = [some |-> TRUE, upper |-> 0, low |-> <<0, 7>>]],
     CanFrame_new_eff(98306, <<>>).frame}

\* the batches read_frames returns: up to two frames
OutBatches == {<<>>} \cup {<<f>> : f \in OutFrames} \cup {<<f, g>> : f, g \in OutFrames}

\* this try_send puts the message first in the queue
try_send_in_front(q, open, msg) ==
    IF ~open THEN [ok |-> FALSE, q |-> q]
    ELSE IF Len(q) >= IpcQueueCap THEN [ok |-> FALSE, q |-> q]
    ELSE [ok |-> TRUE, q |-> <<msg>> \o q]

\* tx_out_pipe.try_send(msg): Err(Closed) with the receiver gone, Err(Full)
\* with no room, else the message is queued
try_send(q, open, msg) ==
    IF ~open THEN [ok |-> FALSE, q |-> q]
    ELSE IF Len(q) >= IpcQueueCap THEN [ok |-> FALSE, q |-> q]
    ELSE [ok |-> TRUE, q |-> Append(q, msg)]

\* this turn offers the encoded frame without the length byte in front
forward_frame_without_length(o, frame) ==
    LET data == encode_to_vec(frame)
        idx == Len(o.read) + 1
        seen == [o EXCEPT !.read = Append(@, frame)]
    IN
    IF Len(data) > 255
    THEN [seen EXCEPT !.too_large = Append(@, idx)]
    ELSE TheOne({ IF r.ok
                  THEN [seen EXCEPT !.tx_out_pipe = r.q, !.accepted = Append(@, idx)]
                  ELSE [seen EXCEPT !.dropped =
                            Append(@, [idx |-> idx, qlen |-> Len(o.tx_out_pipe),
                                       open |-> o.rx_open])]
                  : r \in {try_send(o.tx_out_pipe, o.rx_open, data)} })

\* one turn of `for frame in frames`: the state o of the outbound path after
\* frame has been encoded and offered
forward_frame(o, frame) ==
    LET data == encode_to_vec(frame)
        idx == Len(o.read) + 1
        seen == [o EXCEPT !.read = Append(@, frame)]
    IN
    IF Len(data) > 255
    THEN [seen EXCEPT !.too_large = Append(@, idx)]
    ELSE TheOne({ IF r.ok
                  THEN [seen EXCEPT !.tx_out_pipe = r.q, !.accepted = Append(@, idx)]
                  ELSE [seen EXCEPT !.dropped =
                            Append(@, [idx |-> idx, qlen |-> Len(o.tx_out_pipe),
                                       open |-> o.rx_open])]
                  : r \in {try_send(o.tx_out_pipe, o.rx_open, <<Len(data)>> \o data)} })

\* the Ok arm of forward_can_to_pipe for a batch of at most two frames
forward_frames(o, frames) ==
    IF Len(frames) = 0 THEN o
    ELSE IF Len(frames) = 1 THEN forward_frame(o, frames[1])
    ELSE TheOne({ forward_frame(o1, frames[2]) : o1 \in {forward_frame(o, frames[1])} })

IpcOutInit ==
    /\ ipc = [state |-> "forwarding", tx_out_pipe |-> <<>>,
              rx_open |-> TRUE, writer |-> "waiting", read |-> <<>>,
              accepted |-> <<>>, dropped |-> <<>>, too_large |-> <<>>,
              delivered |-> <<>>, faults |-> MaxWriterFaults]
    /\ br = NoBridge
    /\ sl = NoSlcan
    /\ pc = NoPcan
    /\ ev = EventLoop_new(32, FALSE)
    /\ frame_tx = <<>>
    /\ wire = <<>>
    /\ rx_log = <<>>
    /\ rx_steps = <<>>
    /\ UsbInert

\* forward_can_to_pipe: lock, read_frames returns Ok(frames), every frame is
\* encoded and offered with try_send, and the loop starts again
OutForwardsBatch ==
    /\ \E frames \in OutBatches :
        /\ Len(ipc.read) + Len(frames) <= MaxBusFrames
        /\ ipc' = forward_frames(ipc, frames)
    /\ UNCHANGED <<usb_all, br, sl, pc>>

\* start_ipc_writer: a client connects to can_NAME_out
WriterClientConnects ==
    /\ ipc.writer = "waiting"
    /\ ipc' = [ipc EXCEPT !.writer = "connected"]
    /\ UNCHANGED <<usb_all, br, sl, pc>>

\* start_ipc_writer: rx.recv() yields a message and it is written to the pipe
WriterWrites ==
    /\ ipc.writer = "connected"
    /\ ipc.tx_out_pipe # <<>>
    /\ ipc' = [ipc EXCEPT !.tx_out_pipe = Tail(@),
                          !.delivered = Append(@, Head(ipc.tx_out_pipe))]
    /\ UNCHANGED <<usb_all, br, sl, pc>>

\* write_all fails with BrokenPipe: the message taken is lost and the writer
\* waits for the next client
WriterClientLeaves ==
    /\ ipc.writer = "connected"
    /\ ipc.tx_out_pipe # <<>>
    /\ ipc.faults > 0
    /\ ipc' = [ipc EXCEPT !.tx_out_pipe = Tail(@),
                          !.delivered = Append(@, Head(ipc.tx_out_pipe)),
                          !.writer = "waiting", !.faults = @ - 1]
    /\ UNCHANGED <<usb_all, br, sl, pc>>

\* start_ipc_writer returns an error: the receiver of tx_out_pipe is dropped
WriterEnds ==
    /\ ipc.writer # "ended"
    /\ ipc.faults > 0
    /\ ipc' = [ipc EXCEPT !.writer = "ended", !.rx_open = FALSE,
                          !.tx_out_pipe = <<>>, !.faults = @ - 1]
    /\ UNCHANGED <<usb_all, br, sl, pc>>

IpcOutNext ==
    \/ OutForwardsBatch
    \/ WriterClientConnects \/ WriterWrites \/ WriterClientLeaves \/ WriterEnds

SpecIpcOut == IpcOutInit /\ [][IpcOutNext]_vars

\* the messages of the frames with the given indices
MessagesOf(idxs) == [k \in DOMAIN idxs |-> ipc_message(ipc.read[idxs[k]])]

\* C12: the outbound task does not wait on tx_out_pipe: whatever the queue
\* holds, every frame read_frames returned has been offered by the time the
\* loop calls read_frames again (queued, or dropped with the queue full or
\* closed), a drop does not stop later frames from being offered, and the
\* messages that reached the queue are, in order, the messages of a
\* subsequence of the frames read.
C12_OutboundOffersWithoutBlocking ==
    /\ Len(ipc.accepted) + Len(ipc.dropped) + Len(ipc.too_large) = Len(ipc.read)
    /\ \A k \in DOMAIN ipc.dropped :
          ipc.dropped[k].qlen = IpcQueueCap \/ ~ipc.dropped[k].open
    /\ \A j, k \in DOMAIN ipc.accepted : j < k => ipc.accepted[j] < ipc.accepted[k]
    /\ ipc.rx_open =>
          ipc.delivered \o ipc.tx_out_pipe = MessagesOf(ipc.accepted)

\* a frame was dropped at a full queue and a frame read after it was queued
C12_Witness ==
    \E d \in DOMAIN ipc.dropped, k \in DOMAIN ipc.accepted :
        /\ ipc.dropped[d].open
        /\ ipc.dropped[d].qlen = IpcQueueCap
        /\ ipc.accepted[k] > ipc.dropped[d].idx

-----------------------------------------------------------------------------
(* Claims about driver errors in the bridge, checked under SpecBridge *)

\* C13: one failing driver call ends neither forwarding task and does not
\* shut the server down: the inbound task ends only when its channel is
\* closed, the outbound task ends only on a fatal error, and main leaves its
\* select! for a task's end only in those cases.
C13_DriverErrorsDoNotEndForwarding ==
    /\ br.tin = "ended" => ~br.pipe_open
    /\ br.tout = "ended" => br.out_err.fatal
    /\ (br.main = "abort" /\ br.jh_out = "consumed") => br.out_err.fatal

-----------------------------------------------------------------------------
(* The RX parser with hardware timestamps on, fed the frames of an adapter *)
(* whose 32-bit tick counter runs on and wraps.                            *)

\* bound: frames in a stream of ticks
MaxTicks == 3

\* ticks an adapter stamps its frames with
Ticks == {<<0, 0>>, <<0, 5>>, <<65535, 65535>>}

RECURSIVE TickSeqs(_)
TickSeqs(n) ==
    IF n = 0 THEN {<<>>}
    ELSE TickSeqs(n - 1) \cup {Append(q, t) : q \in TickSeqs(n - 1), t \in Ticks}

\* the frame an adapter sends at tick t
TickFrame(t) == DevHdr(GS_CAN_ECHO_ID_UNUSED, <<0, 291>>, 1, 0, "ramp", t)

RECURSIVE TickStream(_)
TickStream(ticks) ==
    IF ticks = <<>> THEN <<>>
    ELSE DevFrameBytes(TickFrame(Head(ticks)), TRUE, FALSE, 32) \o TickStream(Tail(ticks))

TickInit ==
    \E ticks \in TickSeqs(MaxTicks) \ {<<>>} :
        /\ ev = [EventLoop_new(32, FALSE) EXCEPT !.timestamp_enabled = TRUE]
        /\ wire = TickStream(ticks)
        /\ frame_tx = <<>>
        /\ rx_log = <<>>
        /\ rx_steps = <<>>
        /\ cmd_q = <<>>
        /\ inflight = [queue |-> <<>>, done |-> {}]
        /\ dev = [mode |-> "START", flags |-> GS_CAN_MODE_HW_TIMESTAMP]
        /\ drv = [GsUsbDriver_open(0, 32) EXCEPT !.timestamp_enabled = TRUE]
        /\ op = Idle
        /\ replies = <<>>
        /\ hist = [ticks |-> ticks] @@ NoHist
        /\ budget = [ops |-> 0, faults |-> 0, frames |-> 0, cancels |-> 0]
        /\ HostInert

SpecTicks == TickInit /\ [][ParseNext]_vars

\* the timestamp of the i-th frame offered to the frame channel
TsOf(i) == rx_log[i].frame.timestamp

\* C14: the i-th accepted frame carries the i-th tick in the low word of its
\* timestamp; the high word starts at 0 and grows by exactly 1 when the tick is
\* below the one before, else stays; so the timestamps never decrease.
C14_TimestampsExtendTicks ==
    \A i \in DOMAIN rx_log :
        /\ TsOf(i).some
        /\ TsOf(i).low = hist.ticks[i]
        /\ i = 1 => TsOf(i).upper = 0
        /\ i > 1 =>
            /\ TsOf(i).upper = TsOf(i - 1).upper
                                + (IF Lt32(hist.ticks[i], hist.ticks[i - 1]) THEN 1 ELSE 0)
            /\ \/ TsOf(i - 1).upper < TsOf(i).upper
               \/ /\ TsOf(i - 1).upper = TsOf(i).upper
                  /\ ~Lt32(TsOf(i).low, TsOf(i - 1).low)

\* three frames went through, the tick wrapped before the second and ran on
\* to the third
C14_Witness ==
    /\ Len(rx_log) = 3
    /\ TsOf(1).upper = 0
    /\ TsOf(2).upper = 1
    /\ TsOf(3).upper = 1
    /\ Lt32(TsOf(2).low, TsOf(3).low)

-----------------------------------------------------------------------------
(* slcan.rs: the ASCII line protocol of SlcanDriver. A byte is its ASCII    *)
(* code; a line is the bytes up to and including its '\r'.                  *)

HexChars ==
    <<"0", "1", "2", "3", "4", "5", "6", "7", "8", "9", "A", "B", "C", "D", "E", "F">>

\* the byte of a one-character string
Ch(s) ==
    CASE s = "\r" -> 13
      [] s = " " -> 32
      [] s = "+" -> 43
      [] s = ":" -> 58
      [] s = "J" -> 74
      [] s = "O" -> 79
      [] s = "S" -> 83
      [] s = "T" -> 84
      [] s = "U" -> 85
      [] s = "Z" -> 90
      [] s = "_" -> 95
      [] s = "a" -> 97
      [] s = "c" -> 99
      [] s = "i" -> 105
      [] s = "n" -> 110
      [] s = "o" -> 111
      [] s = "r" -> 114
      [] s = "t" -> 116
      [] s = "u" -> 117
      [] s = "x" -> 120
      [] OTHER -> LET i == CHOOSE k \in 1..16 : HexChars[k] = s
                  IN IF i <= 10 THEN 47 + i ELSE 54 + i

\* the bytes of a string given character by character
Bytes(strs) == [i \in 1..Len(strs) |-> Ch(strs[i])]

\* (c as char).to_digit(10)
to_digit(c) == IF c \in 48..57 THEN Some(c - 48) ELSE None

\* the value of a hexadecimal digit, -1 for any other byte
HexVal(c) ==
    CASE c \in 48..57 -> c - 48
      [] c \in 65..70 -> c - 55
      [] c \in 97..102 -> c - 87
      [] OTHER -> -1

RECURSIVE HexInt(_)
HexInt(s) ==
    IF s = <<>> THEN 0
    ELSE HexInt(SubSeq(s, 1, Len(s) - 1)) * 16 + HexVal(s[Len(s)])

\* from_str_radix(from_utf8(slice).ok()?, 16).ok() of a slice of at most 8
\* bytes, as a word <<hi16, lo16>>: hexadecimal digits of either case after an
\* optional '+'
from_str_radix(slice) ==
    LET s == IF Len(slice) > 1 /\ slice[1] = Ch("+") THEN Tail(slice) ELSE slice
        n == Len(s)
    IN IF n = 0 \/ \E i \in 1..n : HexVal(s[i]) < 0
       THEN None
       ELSE Some(<<IF n > 4 THEN HexInt(SubSeq(s, 1, n - 4)) ELSE 0,
                   HexInt(SubSeq(s, IF n > 4 THEN n - 3 ELSE 1, n))>>)

\* u32::wrapping_add(1) on a word
wrapping_add_1(w) ==
    IF w[2] < 65535 THEN <<w[1], w[2] + 1>> ELSE <<(w[1] + 1) % 65536, 0>>

\* what parse_slcan_line_bytes returns: the frame if any, the high word it
\* leaves, and whether an index past the end of the line panicked
SlcanNone(timestamp_high) ==
    [frame |-> None, timestamp_high |-> timestamp_high, panicked |-> FALSE]

SlcanPanic(timestamp_high) ==
    [frame |-> None, timestamp_high |-> timestamp_high, panicked |-> TRUE]

\* the has_timestamp block (slcan.rs:50-64): "yes", "no", "return" where the
\* `?` returns None, "panic" where line[4] or line[9] is past the end
has_timestamp(line) ==
    IF Len(line) > 1
    THEN IF line[1] = Ch("t")
         THEN IF Len(line) < 5 THEN "panic"
              ELSE IF ~to_digit(line[5]).some THEN "return"
              ELSE IF Len(line) = 5 + to_digit(line[5]).v * 2 + 8 + 1 THEN "yes"
              ELSE "no"
         ELSE IF line[1] = Ch("T")
         THEN IF Len(line) < 10 THEN "panic"
              ELSE IF ~to_digit(line[10]).some THEN "return"
              ELSE IF Len(line) = 10 + to_digit(line[10]).v * 2 + 8 + 1 THEN "yes"
              ELSE "no"
         ELSE "no"
    ELSE "no"

\* the match on line[0] (slcan.rs:66-88)
slcan_header(line) ==
    IF line[1] = Ch("t")
    THEN IF Len(line) < 5 THEN [tag |-> "return"]
         ELSE LET id == from_str_radix(SubSeq(line, 2, 4))
                  dlc == to_digit(line[5])
              IN IF ~id.some \/ ~dlc.some THEN [tag |-> "return"]
                 ELSE [tag |-> "frame", id |-> id.v, extended |-> FALSE,
                       dlc |-> dlc.v, data_start |-> 5, ts_start |-> 5 + dlc.v * 2]
    ELSE IF line[1] = Ch("T")
    THEN IF Len(line) < 10 THEN [tag |-> "return"]
         ELSE LET id == from_str_radix(SubSeq(line, 2, 9))
                  dlc == to_digit(line[10])
              IN IF ~id.some \/ ~dlc.some THEN [tag |-> "return"]
                 ELSE [tag |-> "frame", id |-> id.v, extended |-> TRUE,
                       dlc |-> dlc.v, data_start |-> 10, ts_start |-> 10 + dlc.v * 2]
    ELSE IF line[1] = Ch("J") THEN [tag |-> "J"]
    ELSE [tag |-> "return"]

\* the data bytes (slcan.rs:94-100)
slcan_data(line, h) ==
    LET b == [i \in 1..h.dlc |->
                from_str_radix(SubSeq(line, h.data_start + 2 * i - 1,
                                      h.data_start + 2 * i))]
    IN IF \E i \in 1..h.dlc : ~b[i].some THEN None
       ELSE Some([i \in 1..h.dlc |-> b[i].v[2]])

\* the timestamp (slcan.rs:102-107): upper is the high word <<hi16, lo16>>
slcan_timestamp(timestamp_high, line, h, has_ts) ==
    IF has_ts /\ Len(line) >= h.ts_start + 8
    THEN LET low == from_str_radix(SubSeq(line, h.ts_start + 1, h.ts_start + 8))
         IN IF low.some
            THEN [some |-> TRUE, upper |-> timestamp_high, low |-> low.v]
            ELSE NoTimestamp
    ELSE NoTimestamp

\* the frame (slcan.rs:109-116); an identifier of 2^29 or more is refused
slcan_frame(timestamp_high, line, h, data, has_ts) ==
    LET made == IF h.id[1] >= Pow2(CAN_EFF_BITS - 16) THEN [ok |-> FALSE]
                ELSE IF h.extended
                THEN CanFrame_new_eff(h.id[1] * 65536 + h.id[2], data)
                ELSE CanFrame_new(h.id[1] * 65536 + h.id[2], data)
    IN IF ~made.ok THEN SlcanNone(timestamp_high)
       ELSE [frame |-> Some([made.frame EXCEPT
                               !.timestamp = slcan_timestamp(timestamp_high, line,
                                                             h, has_ts)]),
             timestamp_high |-> timestamp_high, panicked |-> FALSE]

\* SlcanDriver::parse_slcan_line_bytes
parse_slcan_line_bytes(timestamp_high, line) ==
    IF line = <<>> THEN SlcanNone(timestamp_high)
    ELSE IF has_timestamp(line) = "panic" THEN SlcanPanic(timestamp_high)
    ELSE IF has_timestamp(line) = "return" THEN SlcanNone(timestamp_high)
    ELSE IF slcan_header(line).tag = "J"
    THEN [frame |-> None, timestamp_high |-> wrapping_add_1(timestamp_high),
          panicked |-> FALSE]
    ELSE IF slcan_header(line).tag = "return" THEN SlcanNone(timestamp_high)
    ELSE IF Len(line) < slcan_header(line).data_start + slcan_header(line).dlc * 2
    THEN SlcanNone(timestamp_high)
    ELSE IF ~slcan_data(line, slcan_header(line)).some THEN SlcanNone(timestamp_high)
    ELSE slcan_frame(timestamp_high, line, slcan_header(line),
                     slcan_data(line, slcan_header(line)).v,
                     has_timestamp(line) = "yes")

\* memchr(c, &s[from..]) as the one-based index of the byte found, 0 for None
memchr(c, s, from) ==
    IF \E i \in (from + 1)..Len(s) : s[i] = c
    THEN CHOOSE i \in (from + 1)..Len(s) :
            s[i] = c /\ \A j \in (from + 1)..(i - 1) : s[j] # c
    ELSE 0

RECURSIVE slcan_line_loop(_, _, _, _)

\* the body of the loop for the line ending at `end` and its parse result r
slcan_line_step(buf, processed, end, frames, r) ==
    IF r.panicked
    THEN [processed |-> processed, timestamp_high |-> r.timestamp_high,
          frames |-> frames, panicked |-> TRUE]
    ELSE slcan_line_loop(buf, end, r.timestamp_high,
                         IF r.frame.some THEN Append(frames, r.frame.v) ELSE frames)

\* the `while let Some(relative_pos) = memchr(b'\r', ..)` loop
slcan_line_at(buf, processed, timestamp_high, frames, end) ==
    IF end = 0
    THEN [processed |-> processed, timestamp_high |-> timestamp_high,
          frames |-> frames, panicked |-> FALSE]
    ELSE TheOne({ slcan_line_step(buf, processed, end, frames, r) :
                    r \in {parse_slcan_line_bytes(timestamp_high,
                                                  SubSeq(buf, processed + 1, end))} })

slcan_line_loop(buf, processed, timestamp_high, frames) ==
    TheOne({ slcan_line_at(buf, processed, timestamp_high, frames, end) :
               end \in {memchr(Ch("\r"), buf, processed)} })

\* the driver after the loop has returned r over the accumulator buf: a panic
\* leaves the accumulator undrained and the call returns nothing, the frames
\* it had pushed are dropped with its local vector
slcan_drain(s, buf, r) ==
    [s EXCEPT !.state = IF r.panicked THEN "panicked" ELSE @,
              !.leftover = IF r.panicked THEN buf
                           ELSE SubSeq(buf, r.processed + 1, Len(buf)),
              !.timestamp_high = r.timestamp_high,
              !.frames = IF r.panicked THEN @ ELSE @ \o r.frames]

\* SlcanDriver::read_frames when the serial read returned `chunk`
slcan_read_frames(s, chunk) ==
    TheOne({ slcan_drain(s, s.leftover \o chunk, r) :
               r \in {slcan_line_loop(s.leftover \o chunk, 0, s.timestamp_high,
                                      <<>>)} })

-----------------------------------------------------------------------------
(* The receive side of an SLCAN session: the adapter sends a stream of      *)
(* lines, the serial reads return it in pieces of any length.               *)

\* bounds: lines the adapter sends; driver operations called, device writes
\* and library calls that fail
MaxLines == 3
MaxCalls == 3
MaxCallFaults == 1

\* a line of the adapter: its bytes, the frame it stands for if it is a frame
\* line, the low 32 bits of its timestamp if it carries one
SlcanLine(kind, strs, frame, low) ==
    [kind |-> kind, bytes |-> Bytes(strs), frame |-> frame, low |-> low]

SlcanLines ==
    {SlcanLine("frame", <<"t", "1", "2", "3", "0", "\r">>,
               CanFrame_new(291, <<>>).frame, None),
     SlcanLine("J", <<"J", "\r">>, None, None),
     SlcanLine("frame", <<"t", "1", "2", "3", "0",
                          "F", "F", "F", "F", "F", "F", "F", "F", "\r">>,
               CanFrame_new(291, <<>>).frame, Some(<<65535, 65535>>)),
     SlcanLine("frame", <<"T", "0", "0", "0", "1", "8", "0", "0", "2", "2",
                          "1", "1", "A", "B",
                          "0", "0", "0", "0", "0", "0", "0", "5", "\r">>,
               CanFrame_new_eff(98306, <<17, 171>>).frame, Some(<<0, 5>>)),
     SlcanLine("short", <<"t", "1", "2", "\r">>, None, None),
     SlcanLine("other", <<"x", "\r">>, None, None)}

RECURSIVE LineSeqs(_)
LineSeqs(n) ==
    IF n = 0 THEN {<<>>}
    ELSE LineSeqs(n - 1) \cup {Append(q, l) : q \in LineSeqs(n - 1), l \in SlcanLines}

RECURSIVE SlcanStream(_)
SlcanStream(lines) ==
    IF lines = <<>> THEN <<>> ELSE Head(lines).bytes \o SlcanStream(Tail(lines))

\* SlcanDriver::open (slcan.rs:29-35)
SlcanDriver_open ==
    [state |-> "open", leftover |-> <<>>, timestamp_high |-> <<0, 0>>,
     configured_bitrate |-> None]

\* the high words a session starts from: none or 2^32 - 1 markers seen before
HighWords == {<<0, 0>>, <<65535, 65535>>}

\* a session and its surroundings: the lines the adapter sends, the bytes not
\* yet read (rx), the number read, the frames read_frames returned, the
\* commands written to the adapter (tx)
SlcanSession(lines, high) ==
    [SlcanDriver_open EXCEPT !.timestamp_high = high]
        @@ [lines |-> lines, high0 |-> high, rx |-> SlcanStream(lines), nread |-> 0,
            frames |-> <<>>, tx |-> <<>>, ops |-> <<>>,
            left |-> [calls |-> MaxCalls, faults |-> MaxCallFaults]]

SlcanRxInit ==
    /\ \E lines \in LineSeqs(MaxLines) \ {<<>>}, high \in HighWords :
          sl = SlcanSession(lines, high)
    /\ br = NoBridge
    /\ ipc = NoIpc
    /\ pc = NoPcan
    /\ ev = EventLoop_new(32, FALSE)
    /\ frame_tx = <<>>
    /\ wire = <<>>
    /\ rx_log = <<>>
    /\ rx_steps = <<>>
    /\ UsbInert

\* read_frames: the serial read returns the next n bytes of the stream
SlcanReadFrames ==
    /\ sl.state = "open"
    /\ sl.rx # <<>>
    /\ \E n \in 1..Len(sl.rx) :
        \E r \in {slcan_read_frames(sl, SubSeq(sl.rx, 1, n))} :
            sl' = [r EXCEPT !.rx = SubSeq(@, n + 1, Len(@)), !.nread = @ + n]
    /\ UNCHANGED <<usb_all, br, ipc, pc>>

SlcanRxNext == SlcanReadFrames

SpecSlcanRx == SlcanRxInit /\ [][SlcanRxNext]_vars

\* the lines received in full after nread bytes, as a count
RECURSIVE LinesWithin(_, _)
LinesWithin(lines, nread) ==
    IF lines = <<>> \/ Len(Head(lines).bytes) > nread THEN 0
    ELSE 1 + LinesWithin(Tail(lines), nread - Len(Head(lines).bytes))

\* the number of J markers among the first n lines
Markers(lines, n) == Cardinality({i \in 1..n : lines[i].kind = "J"})

\* high + k on 32 bits
AddToWord(high, k) ==
    <<(high[1] + (high[2] + k) \div 65536) % 65536, (high[2] + k) % 65536>>

\* the frames the first n lines stand for, each timestamped one with the high
\* word the markers before it give
RECURSIVE FramesOfLines(_, _, _)
FramesOfLines(lines, n, high) ==
    IF n = 0 THEN <<>>
    ELSE LET l == lines[n]
             rest == FramesOfLines(lines, n - 1, high)
         IN IF l.kind # "frame" THEN rest
            ELSE Append(rest,
                        [l.frame EXCEPT !.timestamp =
                            IF l.low.some
                            THEN [some |-> TRUE,
                                  upper |-> AddToWord(high, Markers(lines, n - 1)),
                                  low |-> l.low.v]
                            ELSE NoTimestamp])

\* C15: after the lines received so far, k of them J markers, timestamp_high
\* is the starting high word plus k modulo 2^32, and the frames returned are
\* those of the frame lines in order (a J line gives none), each timestamped
\* one carrying (timestamp_high << 32) | low32 with the timestamp_high of the
\* markers before it; for `t1230\r J\r t1230FFFFFFFF\r` from high word 0 the
\* second frame carries (1 << 32) | 0xFFFFFFFF.
C15_MarkersCountIntoHighWord ==
    sl.state # "none" =>
        LET n == LinesWithin(sl.lines, sl.nread) IN
        /\ sl.timestamp_high = AddToWord(sl.high0, Markers(sl.lines, n))
        /\ sl.frames = FramesOfLines(sl.lines, n, sl.high0)

-----------------------------------------------------------------------------
(* gs_usb: opening a channel without a bitrate                              *)

\* the MODE requests the driver has submitted
ModeRequests ==
    {i \in DOMAIN hist.sent_cmds :
        /\ hist.sent_cmds[i].kind = "ControlOut"
        /\ hist.sent_cmds[i].request = GS_USB_BREQ_MODE}

\* the calls of an operation so far, the one in progress included
Calls(names) ==
    Cardinality({i \in DOMAIN hist.ops : hist.ops[i].name \in names})
        + (IF op.name \in names THEN 1 ELSE 0)

\* C16: as long as configured_bitrate has never been set, every open_channel
\* and every open_listen_only has returned InvalidInput, none is waiting for
\* the adapter, and no MODE request has been sent for them: no MODE(START) was
\* submitted, and the MODE requests submitted are no more than the calls of
\* set_bitrate and close_channel, which send MODE(RESET).
C16_OpenWithoutBitrateRefused ==
    ~drv.configured_bitrate.some =>
        /\ op.name \notin {"open_channel", "open_listen_only"}
        /\ \A i \in DOMAIN hist.ops :
              hist.ops[i].name \in {"open_channel", "open_listen_only"}
                  => hist.ops[i].result = Err("InvalidInput")
        /\ \A i \in ModeRequests :
              decode_mode(hist.sent_cmds[i].data).mode = GS_CAN_MODE_RESET
        /\ Cardinality(ModeRequests) <= Calls({"set_bitrate", "close_channel"})

\* both open_channel and open_listen_only were called with no bitrate set
C16_Witness ==
    /\ ~drv.configured_bitrate.some
    /\ \E i, j \in DOMAIN hist.ops :
          /\ hist.ops[i] = [name |-> "open_channel", result |-> Err("InvalidInput")]
          /\ hist.ops[j] = [name |-> "open_listen_only", result |-> Err("InvalidInput")]

-----------------------------------------------------------------------------
(* The command side of the SLCAN and PCAN drivers: what each operation      *)
(* writes to the serial port or asks of the PCAN-Basic library.             *)

\* the digits of n in a base, most significant first
RECURSIVE DigitsOf(_, _)
DigitsOf(n, base) ==
    IF n < base THEN <<n>> ELSE Append(DigitsOf(n \div base, base), n % base)

\* format!("{:0wX}", n): uppercase hexadecimal, zero-padded to at least w bytes
UpperHex(n, w) ==
    LET d == DigitsOf(n, 16)
        pad == IF Len(d) < w THEN w - Len(d) ELSE 0
    IN [i \in 1..(pad + Len(d)) |-> IF i <= pad THEN Ch("0") ELSE Ch(HexChars[d[i - pad] + 1])]

\* format!("{}", n): decimal
Decimal(n) == [i \in 1..Len(DigitsOf(n, 10)) |-> 48 + DigitsOf(n, 10)[i]]

RECURSIVE HexOfBytes(_)
HexOfBytes(data) ==
    IF data = <<>> THEN <<>> ELSE UpperHex(Head(data), 2) \o HexOfBytes(Tail(data))

\* the command send_frame writes (slcan.rs:262-278)
slcan_frame_cmd(frame) ==
    (IF frame.extended THEN <<Ch("T")>> \o UpperHex(frame.id, 8)
                       ELSE <<Ch("t")>> \o UpperHex(frame.id, 3))
        \o Decimal(frame.dlc) \o HexOfBytes(frame.data) \o <<Ch("\r")>>

\* the command set_bitrate writes (slcan.rs:233-249), None for any other rate
slcan_bitrate_cmd(bitrate) ==
    LET n == CASE bitrate = 10000 -> 0
               [] bitrate = 20000 -> 1
               [] bitrate = 50000 -> 2
               [] bitrate = 100000 -> 3
               [] bitrate = 125000 -> 4
               [] bitrate = 250000 -> 5
               [] bitrate = 500000 -> 6
               [] bitrate = 800000 -> 7
               [] bitrate = 1000000 -> 8
               [] OTHER -> 9
    IN IF n = 9 THEN None ELSE Some(<<Ch("S"), 48 + n, Ch("\r")>>)

\* writer.write_all(cmd): the bytes reach the adapter or the write fails
slcan_write(s, name, arg, cmd, ok) ==
    [s EXCEPT !.tx = Append(@, [op |-> name, arg |-> arg, bytes |-> cmd, ok |-> ok]),
              !.ops = Append(@, [name |-> name, arg |-> arg,
                                 result |-> IF ok THEN Ok(0) ELSE Err("Other")]),
              !.left = [calls |-> @.calls - 1,
                        faults |-> IF ok THEN @.faults ELSE @.faults - 1]]

\* SlcanDriver::set_bitrate: configured_bitrate is assigned before the write
slcan_set_bitrate(s, bitrate, ok) ==
    IF ~slcan_bitrate_cmd(bitrate).some
    THEN [s EXCEPT !.ops = Append(@, [name |-> "set_bitrate", arg |-> bitrate,
                                      result |-> Err("InvalidInput")]),
                   !.left.calls = @ - 1]
    ELSE slcan_write([s EXCEPT !.configured_bitrate = Some(bitrate)],
                     "set_bitrate", bitrate, slcan_bitrate_cmd(bitrate).v, ok)

\* SlcanDriver::open_channel
slcan_open_channel(s, ok) ==
    slcan_write(s, "open_channel", 0, <<Ch("O"), Ch("\r")>>, ok)

\* SlcanDriver::close_channel
slcan_close_channel(s, ok) ==
    slcan_write(s, "close_channel", 0, <<Ch("C"), Ch("\r")>>, ok)

\* SlcanDriver::enable_timestamp
slcan_enable_timestamp(s, ok) ==
    slcan_write(s, "enable_timestamp", 0, <<Ch("Z"), Ch("1"), Ch("\r")>>, ok)

\* SlcanDriver::send_frame
slcan_send_frame(s, frame, ok) ==
    slcan_write(s, "send_frame", frame, slcan_frame_cmd(frame), ok)

\* pcan.rs map_bitrate_to_const: the rates that have a PEAK_BAUD constant
map_bitrate_to_const(bps) ==
    IF bps \in {5000, 10000, 20000, 33333, 47619, 50000, 83333, 95238, 100000,
                125000, 250000, 500000, 800000, 1000000}
    THEN Some(bps) ELSE None

\* PcanDriver::new
PcanDriver_new ==
    [state |-> "open", configured_bitrate |-> None, api |-> <<>>, ops |-> <<>>,
     left |-> [calls |-> MaxCalls, faults |-> MaxCallFaults]]

\* PcanDriver::set_bitrate
pcan_set_bitrate(p, bitrate) ==
    IF map_bitrate_to_const(bitrate).some
    THEN [p EXCEPT !.configured_bitrate = Some(bitrate),
                   !.ops = Append(@, [name |-> "set_bitrate", arg |-> bitrate,
                                      result |-> Ok(0)]),
                   !.left.calls = @ - 1]
    ELSE [p EXCEPT !.ops = Append(@, [name |-> "set_bitrate", arg |-> bitrate,
                                      result |-> Err("InvalidInput")]),
                   !.left.calls = @ - 1]

\* PcanDriver::open_channel: CAN_Initialize is called with the constant of the
\* configured bitrate and returns PEAK_ERROR_OK or another status
pcan_open_channel(p, ok) ==
    IF ~p.configured_bitrate.some
          \/ ~map_bitrate_to_const(p.configured_bitrate.v).some
    THEN [p EXCEPT !.ops = Append(@, [name |-> "open_channel", arg |-> 0,
                                      result |-> Err("Other")]),
                   !.left.calls = @ - 1]
    ELSE [p EXCEPT !.api = Append(@, [fn |-> "CAN_Initialize",
                                      btr |-> map_bitrate_to_const(
                                                  p.configured_bitrate.v).v,
                                      ok |-> ok]),
                   !.ops = Append(@, [name |-> "open_channel", arg |-> 0,
                                      result |-> IF ok THEN Ok(0) ELSE Err("Other")]),
                   !.left = [calls |-> @.calls - 1,
                             faults |-> IF ok THEN @.faults ELSE @.faults - 1]]

\* the bitrates and the frames a caller passes
CallBitrates == {500000, 1000000, 123456}

CallFrames ==
    {CanFrame_new(291, <<1, 2, 3>>).frame,
     CanFrame_new(31, <<17, 34>>).frame,
     CanFrame_new_eff(98306, <<>>).frame,
     CanFrame_new_eff(305419896, <<0, 1, 2, 3, 4, 5, 6, 255>>).frame,
     CanFrame_new(291, [i \in 1..16 |-> i]).frame,
     CanFrame_new_remote(291, 0, FALSE).frame,
     CanFrame_new_remote(98306, 2, TRUE).frame}

\* the server runs one driver: an SLCAN session or a PCAN session
CallsInit ==
    /\ \/ sl = SlcanSession(<<>>, <<0, 0>>) /\ pc = NoPcan
       \/ sl = NoSlcan /\ pc = PcanDriver_new
    /\ br = NoBridge
    /\ ipc = NoIpc
    /\ ev = EventLoop_new(32, FALSE)
    /\ frame_tx = <<>>
    /\ wire = <<>>
    /\ rx_log = <<>>
    /\ rx_steps = <<>>
    /\ UsbInert

\* whether a call whose device access succeeds or not may be made
MayCall(d, ok) == d.left.calls > 0 /\ (ok \/ d.left.faults > 0)

SlcanSetBitrate ==
    /\ sl.state = "open"
    /\ \E bitrate \in CallBitrates, ok \in BOOLEAN :
        /\ MayCall(sl, ok)
        /\ sl' = slcan_set_bitrate(sl, bitrate, ok)
    /\ UNCHANGED <<usb_all, br, ipc, pc>>

SlcanOpenChannel ==
    /\ sl.state = "open"
    /\ \E ok \in BOOLEAN :
        /\ MayCall(sl, ok)
        /\ sl' = slcan_open_channel(sl, ok)
    /\ UNCHANGED <<usb_all, br, ipc, pc>>

SlcanCloseChannel ==
    /\ sl.state = "open"
    /\ \E ok \in BOOLEAN :
        /\ MayCall(sl, ok)
        /\ sl' = slcan_close_channel(sl, ok)
    /\ UNCHANGED <<usb_all, br, ipc, pc>>

SlcanEnableTimestamp ==
    /\ sl.state = "open"
    /\ \E ok \in BOOLEAN :
        /\ MayCall(sl, ok)
        /\ sl' = slcan_enable_timestamp(sl, ok)
    /\ UNCHANGED <<usb_all, br, ipc, pc>>

SlcanSendFrame ==
    /\ sl.state = "open"
    /\ \E frame \in CallFrames, ok \in BOOLEAN :
        /\ MayCall(sl, ok)
        /\ sl' = slcan_send_frame(sl, frame, ok)
    /\ UNCHANGED <<usb_all, br, ipc, pc>>

PcanSetBitrate ==
    /\ pc.state = "open"
    /\ pc.left.calls > 0
    /\ \E bitrate \in CallBitrates : pc' = pcan_set_bitrate(pc, bitrate)
    /\ UNCHANGED <<usb_all, br, ipc, sl>>

PcanOpenChannel ==
    /\ pc.state = "open"
    /\ \E ok \in BOOLEAN :
        /\ MayCall(pc, ok)
        /\ pc' = pcan_open_channel(pc, ok)
    /\ UNCHANGED <<usb_all, br, ipc, sl>>

CallsNext ==
    \/ SlcanSetBitrate \/ SlcanOpenChannel \/ SlcanCloseChannel
    \/ SlcanEnableTimestamp \/ SlcanSendFrame
    \/ PcanSetBitrate \/ PcanOpenChannel

SpecCalls == CallsInit /\ [][CallsNext]_vars

\* C17: a driver whose configured_bitrate has never been set has sent no open
\* command: no `O\r` of an SLCAN session has reached the adapter, a PCAN
\* session has not called CAN_Initialize, a gs_usb session has submitted no
\* MODE(START) (which C16 states for the USB specification).
C17_OpenOnlyWithBitrate ==
    /\ (sl.state = "open" /\ ~sl.configured_bitrate.some) =>
          \A i \in DOMAIN sl.tx : ~(sl.tx[i].op = "open_channel" /\ sl.tx[i].ok)
    /\ (pc.state = "open" /\ ~pc.configured_bitrate.some) =>
          \A i \in DOMAIN pc.api : pc.api[i].fn # "CAN_Initialize"
    /\ ~drv.configured_bitrate.some =>
          \A i \in ModeRequests :
              decode_mode(hist.sent_cmds[i].data).mode # GS_CAN_MODE_START

\* C19: the line send_frame writes for a classical frame of at most 8 data
\* bytes, remote frames included, parses back to one frame equal to the frame
\* sent, with no panic and the high word untouched.
C19_SlcanRoundTrip ==
    sl.state = "open" =>
        \A i \in DOMAIN sl.tx :
            sl.tx[i].op = "send_frame" =>
                parse_slcan_line_bytes(sl.timestamp_high, sl.tx[i].bytes)
                    = [frame |-> Some(sl.tx[i].arg),
                       timestamp_high |-> sl.timestamp_high, panicked |-> FALSE]

-----------------------------------------------------------------------------
(* gs_usb: the bytes of the TX encoder fed to the RX parser                  *)

\* the classic frames encoded
LoopFrames ==
    {CanFrame_new(291, <<>>).frame,
     CanFrame_new(291, <<1, 2, 3>>).frame,
     CanFrame_new(2047, <<0, 1, 2, 3, 4, 5, 6, 255>>).frame,
     CanFrame_new_eff(98306, <<>>).frame,
     CanFrame_new_eff(536870911, <<222, 173>>).frame,
     CanFrame_new_remote(291, 0, FALSE).frame,
     CanFrame_new_remote(98306, 2, TRUE).frame,
     CanFrame_new_error(4).frame}

\* values of tx_counter when the frame is encoded
LoopCounters == {0, 15, 16}

\* the RX accumulator is about to receive encode_frame_minimal(f)
LoopbackInit ==
    \E f \in LoopFrames, counter \in LoopCounters, ts \in BOOLEAN :
        /\ drv = [GsUsbDriver_open(0, 32) EXCEPT !.tx_counter = counter,
                                                 !.timestamp_enabled = ts]
        /\ ev = [EventLoop_new(32, FALSE) EXCEPT !.timestamp_enabled = ts]
        /\ wire = encode_frame_minimal(drv, f)
        /\ hist = [looped |-> f] @@ NoHist
        /\ frame_tx = <<>>
        /\ rx_log = <<>>
        /\ rx_steps = <<>>
        /\ cmd_q = <<>>
        /\ inflight = [queue |-> <<>>, done |-> {}]
        /\ dev = [mode |-> "START", flags |-> 0]
        /\ op = Idle
        /\ replies = <<>>
        /\ budget = [ops |-> 0, faults |-> 0, frames |-> 0, cancels |-> 0]
        /\ HostInert

\* the encoding arrives in bulk-in chunks; one frame at most can come out of
\* it, which the received-frame channel has room for
LoopbackNext == DeliverChunk

SpecLoopback == LoopbackInit /\ [][LoopbackNext]_vars

\* equality of two frames but for the timestamp
SameButTimestamp(f, g) ==
    /\ f.id = g.id
    /\ f.extended = g.extended
    /\ f.rtr = g.rtr
    /\ f.error = g.error
    /\ f.data = g.data

\* C18: once the parser has been given all the bytes the TX encoder produced
\* for a classic frame f, it has emitted exactly one frame, equal to f in
\* identifier, kind, RTR and error flags and data.
C18_TxEncodingParsesBack ==
    (wire = <<>> /\ ev.state # "sending") =>
        /\ Len(rx_log) = 1
        /\ SameButTimestamp(rx_log[1].frame, hist.looped)

-----------------------------------------------------------------------------
(* gs_usb: a received frame of three data bytes whose payload area is cut   *)
(* short                                                                    *)

\* header FF FF FF FF 23 01 00 00 03 00 00 00 and the data DE AD BE
ExampleBytes ==
    <<255, 255, 255, 255, 35, 1, 0, 0, 3, 0, 0, 0, 222, 173, 190>>

\* bound: bytes of payload padding that follow the three data bytes (five
\* complete the 8-byte payload area)
MaxTail == 5

\* the adapter delivers the 15 bytes and `tail` bytes of padding, nothing
\* else; timestamps are off, the channel is 0
ExampleInit ==
    \E tail \in 0..MaxTail, pad \in BOOLEAN :
        /\ ev = EventLoop_new(32, pad)
        /\ wire = ExampleBytes \o Zeros(tail)
        /\ hist = [tail |-> tail] @@ NoHist
        /\ frame_tx = <<>>
        /\ rx_log = <<>>
        /\ rx_steps = <<>>
        /\ cmd_q = <<>>
        /\ inflight = [queue |-> <<>>, done |-> {}]
        /\ dev = [mode |-> "START", flags |-> 0]
        /\ drv = GsUsbDriver_open(0, 32)
        /\ op = Idle
        /\ replies = <<>>
        /\ budget = [ops |-> 0, faults |-> 0, frames |-> 0, cancels |-> 0]
        /\ HostInert

SpecExample == ExampleInit /\ [][DeliverChunk]_vars

\* C20: with timestamps and padding off and channel_index 0, once the
\* accumulator has received exactly the 15 bytes the parser has emitted
\* exactly one frame {id 0x123, standard, data DE AD BE}, the parse step
\* consumed 15 bytes and the accumulator is empty.
C20_FifteenByteFrame ==
    (hist.tail = 0 /\ ~ev.pad_pkts_enabled /\ wire = <<>>) =>
        /\ Len(rx_log) = 1
        /\ SameButTimestamp(rx_log[1].frame, CanFrame_new(291, <<222, 173, 190>>).frame)
        /\ rx_steps = <<[why |-> "frame", consumed |-> 15]>>
        /\ ev.rx_buffer = <<>>
        /\ ev.state = "select"

-----------------------------------------------------------------------------
(* gs_usb: the echo of a transmitted frame, three data bytes, payload area  *)
(* cut short                                                                *)

\* header 02 00 00 00 23 01 00 00 03 00 00 00 (echo_id 2) and three data bytes
EchoExampleBytes ==
    <<2, 0, 0, 0, 35, 1, 0, 0, 3, 0, 0, 0, 222, 173, 190>>

\* the adapter delivers the 15 bytes and `tail` bytes of padding, nothing
\* else; timestamps are off, the channel is 0
EchoExampleInit ==
    \E tail \in 0..MaxTail, pad \in BOOLEAN :
        /\ ev = EventLoop_new(32, pad)
        /\ wire = EchoExampleBytes \o Zeros(tail)
        /\ hist = [tail |-> tail] @@ NoHist
        /\ frame_tx = <<>>
        /\ rx_log = <<>>
        /\ rx_steps = <<>>
        /\ cmd_q = <<>>
        /\ inflight = [queue |-> <<>>, done |-> {}]
        /\ dev = [mode |-> "START", flags |-> 0]
        /\ drv = GsUsbDriver_open(0, 32)
        /\ op = Idle
        /\ replies = <<>>
        /\ budget = [ops |-> 0, faults |-> 0, frames |-> 0, cancels |-> 0]
        /\ HostInert

SpecEchoExample == EchoExampleInit /\ [][DeliverChunk]_vars

\* C21: with timestamps and padding off and channel_index 0, once the
\* accumulator has received exactly the 15 bytes of the echo (echo_id 2,
\* id 0x123, dlc 3, three data bytes) the parser has emitted no frame, the
\* parse step consumed 15 bytes and the accumulator is empty.
C21_FifteenByteEcho ==
    (hist.tail = 0 /\ ~ev.pad_pkts_enabled /\ wire = <<>>) =>
        /\ rx_log = <<>>
        /\ rx_steps = <<[why |-> "skip", consumed |-> 15]>>
        /\ ev.rx_buffer = <<>>
        /\ ev.state = "select"

-----------------------------------------------------------------------------
(* gs_usb: a well-formed frame of another channel in the bulk-in stream,    *)
(* followed by frames of the session's own channel                         *)

\* bound: own frames that follow the frame of the other channel
MaxFollowing == 2

\* frames of channel 1 (the session has channel_index 0)
ForeignFrames ==
    { DevHdr(GS_CAN_ECHO_ID_UNUSED, <<0, 291>>, dlc, 1, "ff", <<0, 9>>) :
          dlc \in {0, 3, 8} }

\* frames of channel 0
OwnFrames ==
    { DevHdr(GS_CAN_ECHO_ID_UNUSED, <<0, 291>>, 3, 0, "ramp", <<0, 5>>),
      DevHdr(GS_CAN_ECHO_ID_UNUSED, <<0, 31>>, 0, 0, "ramp", <<0, 9>>) }

RECURSIVE OwnSeqs(_)
OwnSeqs(n) ==
    IF n = 0 THEN {<<>>}
    ELSE OwnSeqs(n - 1) \cup {Append(q, h) : q \in OwnSeqs(n - 1), h \in OwnFrames}

RECURSIVE BytesOfFrames(_, _, _, _)
BytesOfFrames(hs, ts_enabled, pad, wmax) ==
    IF hs = <<>> THEN <<>>
    ELSE DevFrameBytes(Head(hs), ts_enabled, pad, wmax)
            \o BytesOfFrames(Tail(hs), ts_enabled, pad, wmax)

ForeignInit ==
    \E ts \in BOOLEAN, pad \in BOOLEAN, g \in ForeignFrames,
       following \in OwnSeqs(MaxFollowing) :
        /\ ev = [EventLoop_new(32, pad) EXCEPT !.timestamp_enabled = ts]
        /\ wire = DevFrameBytes(g, ts, pad, 32) \o BytesOfFrames(following, ts, pad, 32)
        /\ hist = [foreign_len |-> Len(DevFrameBytes(g, ts, pad, 32)),
                   total |-> Len(DevFrameBytes(g, ts, pad, 32))
                               + Len(BytesOfFrames(following, ts, pad, 32)),
                   following |-> following] @@ NoHist
        /\ frame_tx = <<>>
        /\ rx_log = <<>>
        /\ rx_steps = <<>>
        /\ cmd_q = <<>>
        /\ inflight = [queue |-> <<>>, done |-> {}]
        /\ dev = [mode |-> "START", flags |-> 0]
        /\ drv = [GsUsbDriver_open(0, 32) EXCEPT !.timestamp_enabled = ts]
        /\ op = Idle
        /\ replies = <<>>
        /\ budget = [ops |-> 0, faults |-> 0, frames |-> 0, cancels |-> 0]
        /\ HostInert

SpecForeign == ForeignInit /\ [][DeliverChunk]_vars

\* the bytes the parser has taken out of the accumulator so far
ConsumedSoFar == hist.total - Len(wire) - Len(ev.rx_buffer)

\* C22: the frame of the other channel is consumed as a whole in one step:
\* the parser has consumed nothing or at least that frame's full length, no
\* step advances byte by byte into it, and the frames emitted are those of
\* the own-channel frames that follow it, in order.
C22_ForeignFrameSkippedWhole ==
    /\ ConsumedSoFar = 0 \/ ConsumedSoFar >= hist.foreign_len
    /\ \A i \in DOMAIN rx_steps : rx_steps[i].why # "resync"
    /\ Len(rx_log) <= Len(hist.following)
    /\ \A i \in DOMAIN rx_log :
          /\ rx_log[i].frame.id = hist.following[i].raw_id[2]
          /\ Len(rx_log[i].frame.data) = dlc_to_len(hist.following[i].dlc)

-----------------------------------------------------------------------------
(* gs_usb: frames of every DLC on the session's own channel, as data and as *)
(* remote frames, with and without timestamps and padding                  *)

\* bound: frames in a stream of the lengths specification
MaxLenFrames == 2

\* the data frame and the remote frame (CAN_RTR_FLAG, bit 30) of one DLC
LengthFrames(dlc) ==
    { DevHdr(GS_CAN_ECHO_ID_UNUSED, <<0, 291>>, dlc, 0, "ramp", <<0, 5>>),
      DevHdr(GS_CAN_ECHO_ID_UNUSED, <<16384, 7>>, dlc, 0, "ramp", <<0, 7>>) }

RECURSIVE LengthSeqs(_, _)
LengthSeqs(dlc, n) ==
    IF n = 0 THEN {<<>>}
    ELSE LengthSeqs(dlc, n - 1)
            \cup {Append(q, h) : q \in LengthSeqs(dlc, n - 1), h \in LengthFrames(dlc)}

LengthsInit ==
    \E ts \in BOOLEAN, pad \in BOOLEAN, dlc \in 0..15 :
      \E hs \in LengthSeqs(dlc, MaxLenFrames) \ {<<>>} :
        /\ ev = [EventLoop_new(32, pad) EXCEPT !.timestamp_enabled = ts]
        /\ wire = BytesOfFrames(hs, ts, pad, 32)
        /\ hist = [dlc |-> dlc, headers |-> hs] @@ NoHist
        /\ frame_tx = <<>>
        /\ rx_log = <<>>
        /\ rx_steps = <<>>
        /\ cmd_q = <<>>
        /\ inflight = [queue |-> <<>>, done |-> {}]
        /\ dev = [mode |-> "START", flags |-> 0]
        /\ drv = [GsUsbDriver_open(0, 32) EXCEPT !.timestamp_enabled = ts]
        /\ op = Idle
        /\ replies = <<>>
        /\ budget = [ops |-> 0, faults |-> 0, frames |-> 0, cancels |-> 0]
        /\ HostInert

SpecLengths == LengthsInit /\ [][ParseNext]_vars

\* the length a frame carries: the data bytes of a data frame, the length
\* code of a remote frame
FrameLength(f) == IF f.rtr THEN f.dlc ELSE Len(f.data)

\* C23: every frame the parser emits has the length dlc_to_len(dlc) of the
\* header it was parsed from.
C23_EmittedLengthIsDlcToLen ==
    \A i \in DOMAIN rx_log :
        FrameLength(rx_log[i].frame) = dlc_to_len(rx_log[i].hdr_dlc)


\* the byte count the RX grammar gives a frame: header, payload aligned to 8
\* (8 at least), the optional tick, the whole rounded up to wmax when padded
ExpectedConsumed(dlc, ts, pad, wmax) ==
    LET n == dlc_to_len(dlc)
        payload == IF n <= 8 THEN 8 ELSE ((n + 7) \div 8) * 8
        c == 12 + payload + (IF ts THEN 4 ELSE 0)
    IN IF pad THEN ((c + wmax - 1) \div wmax) * wmax ELSE c

\* C24: each accepted frame is reported consumed with the length of the RX
\* grammar for its DLC: 20 bytes for DLC 0 without timestamps and padding,
\* 96 bytes for DLC 15 with timestamps and padding to 32.
C24_ConsumedByGrammar ==
    \A i \in DOMAIN rx_steps :
        rx_steps[i].why = "frame" =>
            /\ rx_steps[i].consumed
                 = ExpectedConsumed(hist.dlc, ev.timestamp_enabled,
                                    ev.pad_pkts_enabled, ev.out_wmax)
            /\ (hist.dlc = 0 /\ ~ev.timestamp_enabled /\ ~ev.pad_pkts_enabled)
                 => rx_steps[i].consumed = 20
            /\ (hist.dlc = 15 /\ ev.timestamp_enabled /\ ev.pad_pkts_enabled
                  /\ ev.out_wmax = 32)
                 => rx_steps[i].consumed = 96

C24_Witness ==
    /\ hist.dlc = 15
    /\ ev.timestamp_enabled
    /\ ev.pad_pkts_enabled
    /\ ev.out_wmax = 32
    /\ Len(rx_log) = 2
    /\ rx_steps = <<[why |-> "frame", consumed |-> 96]>>

-----------------------------------------------------------------------------
(* SLCAN: an adapter (or a noisy line) that sends bytes without a line      *)
(* terminator                                                               *)

\* the longest line parse_slcan_line_bytes accepts: `T`, 8 id digits, the
\* length digit, 8 data bytes, 8 timestamp digits and the terminator
SLCAN_MAX_LINE == 10 + 8 * 2 + 8 + 1

\* bound: bytes the flood is longer than two maximum-length lines
MaxFlood == 3

RECURSIVE Repeat(_, _)
Repeat(b, n) == IF n = 0 THEN <<>> ELSE <<b>> \o Repeat(b, n - 1)

\* streams of one repeated byte, with or without a terminator at the end
FloodStreams ==
    { Repeat(Ch(c), 2 * SLCAN_MAX_LINE + k) \o end :
          c \in {"x", "t"}, k \in 1..MaxFlood, end \in {<<>>, <<Ch("\r")>>} }

SlcanFloodInit ==
    /\ \E stream \in FloodStreams :
          sl = [SlcanSession(<<>>, <<0, 0>>) EXCEPT !.rx = stream]
    /\ br = NoBridge
    /\ ipc = NoIpc
    /\ pc = NoPcan
    /\ ev = EventLoop_new(32, FALSE)
    /\ frame_tx = <<>>
    /\ wire = <<>>
    /\ rx_log = <<>>
    /\ rx_steps = <<>>
    /\ UsbInert

SpecSlcanFlood == SlcanFloodInit /\ [][SlcanReadFrames]_vars

\* C25: the SLCAN accumulator never holds more than two maximum-length lines,
\* whatever the adapter sends.
C25_AccumulatorBounded ==
    Len(sl.leftover) <= 2 * SLCAN_MAX_LINE

-----------------------------------------------------------------------------
(* bit_timing.rs: calc_bit_timing, the search for the bit timing of a       *)
(* bitrate. The loop over brp is modelled one brp at a time, the loops     *)
(* over tseg1 and tseg2 inside it. The f64 values of the code are kept as  *)
(* exact fractions: for the inputs below no rate error lies on the 0.05    *)
(* boundary and the least score is 0 or is reached by one candidate only.  *)

RECURSIVE Gcd(_, _)
Gcd(a, b) == IF b = 0 THEN a ELSE Gcd(b, a % b)

Abs(x) == IF x < 0 THEN 0 - x ELSE x

\* a / b <= c / d for a, c >= 0 and b, d > 0, without forming a * d
RECURSIVE FracLeq(_, _, _, _)
FracLeq(a, b, c, d) ==
    IF a \div b # c \div d THEN a \div b < c \div d
    ELSE IF a % b = 0 THEN TRUE
    ELSE IF c % d = 0 THEN FALSE
    ELSE FracLeq(d, c % d, b, a % b)

\* a split that hands all of tseg1 to phase_seg1
bt_split_no_prop(tseg1, tseg1_max) ==
    [ok |-> TRUE, phase_seg1 |-> tseg1, prop_seg |-> 0]

\* phase_seg1 and prop_seg of a tseg1 (bit_timing.rs:104-120); ok = FALSE is
\* the `continue`
bt_split(tseg1, tseg1_max) ==
    LET half == IF tseg1 > 1 THEN Min(tseg1 \div 2, tseg1_max) ELSE 1
        phase_seg1 == IF half = 0 THEN 1 ELSE half
        prop_seg == IF tseg1 > phase_seg1 THEN tseg1 - phase_seg1 ELSE 0
    IN IF prop_seg # 0
       THEN [ok |-> TRUE, phase_seg1 |-> phase_seg1, prop_seg |-> prop_seg]
       ELSE IF phase_seg1 > 1
       THEN [ok |-> TRUE, phase_seg1 |-> phase_seg1 - 1, prop_seg |-> 1]
       ELSE [ok |-> FALSE]

\* rate_error <= 0.05 for the divider n = brp * total_tq, with fclk and the
\* bitrate both divided by their greatest common divisor (fq, bq)
bt_rate_ok(fq, bq, n) == 20 * Abs(fq - bq * n) <= bq * n

\* score = rate_error * 10.0 + sample_error as the fraction num / den, with
\* TARGET_SAMPLE_POINT = 0.875 = 7/8
bt_score(fq, bq, brp, tseg1, tseg2) ==
    LET total_tq == 1 + tseg1 + tseg2 IN
    [num |-> 80 * Abs(fq - bq * brp * total_tq)
               + Abs(8 * (1 + tseg1) - 7 * total_tq) * bq * brp,
     den |-> 8 * bq * brp * total_tq]

\* the body of the innermost loop: the search state after (brp, tseg1, tseg2)
bt_consider(s, fq, bq, caps, brp, tseg1, tseg2) ==
    LET total_tq == 1 + tseg1 + tseg2
        score == bt_score(fq, bq, brp, tseg1, tseg2)
        split == bt_split(tseg1, caps.tseg1_max)
        candidate == [prop_seg |-> split.prop_seg, phase_seg1 |-> split.phase_seg1,
                      phase_seg2 |-> tseg2, sjw |-> Min(caps.sjw_max, tseg2),
                      brp |-> brp]
    IN IF ~bt_rate_ok(fq, bq, brp * total_tq) THEN s
       ELSE IF ~split.ok THEN s
       ELSE [best |-> IF s.best.some /\ FracLeq(s.best.num, s.best.den,
                                                 score.num, score.den)
                      THEN s.best
                      ELSE [some |-> TRUE, v |-> candidate,
                            num |-> score.num, den |-> score.den],
             cands |-> s.cands \cup {[total_tq |-> total_tq, cfg |-> candidate]}]

\* `for tseg2 in tseg2_min..=tseg2_max`, from tseg2 on
RECURSIVE bt_tseg2_loop(_, _, _, _, _, _, _)
bt_tseg2_loop(s, fq, bq, caps, brp, tseg1, tseg2) ==
    IF tseg2 > caps.tseg2_max THEN s
    ELSE TheOne({ bt_tseg2_loop(t, fq, bq, caps, brp, tseg1, tseg2 + 1) :
                    t \in {bt_consider(s, fq, bq, caps, brp, tseg1, tseg2)} })

\* `for tseg1 in tseg1_min..=tseg1_max`, from tseg1 on
RECURSIVE bt_tseg1_loop(_, _, _, _, _, _)
bt_tseg1_loop(s, fq, bq, caps, brp, tseg1) ==
    IF tseg1 > caps.tseg1_max THEN s
    ELSE TheOne({ bt_tseg1_loop(t, fq, bq, caps, brp, tseg1 + 1) :
                    t \in {bt_tseg2_loop(s, fq, bq, caps, brp, tseg1,
                                         caps.tseg2_min)} })

\* the constraints of the adapter the bit-timing claims are stated for
BtCaps ==
    [fclk_can |-> 48000000, tseg1_min |-> 1, tseg1_max |-> 16, tseg2_min |-> 1,
     tseg2_max |-> 8, sjw_max |-> 4, brp_min |-> 1, brp_max |-> 1024, brp_inc |-> 1]

BtBitrates ==
    {10000, 20000, 50000, 100000, 125000, 250000, 500000, 800000, 1000000}

\* calc_bit_timing(bitrate, caps) about to enter the loop over brp
BitTimingInit ==
    /\ \E bitrate \in BtBitrates :
          op = [name |-> "calc_bit_timing", bitrate |-> bitrate, caps |-> BtCaps,
                brp |-> BtCaps.brp_min, best |-> None, cands |-> {},
                returned |-> FALSE]
    /\ ev = EventLoop_new(32, FALSE)
    /\ frame_tx = <<>>
    /\ wire = <<>>
    /\ rx_log = <<>>
    /\ rx_steps = <<>>
    /\ cmd_q = <<>>
    /\ inflight = [queue |-> <<>>, done |-> {}]
    /\ dev = [mode |-> "RESET", flags |-> 0]
    /\ drv = GsUsbDriver_open(0, 32)
    /\ replies = <<>>
    /\ hist = NoHist
    /\ budget = [ops |-> 0, faults |-> 0, frames |-> 0, cancels |-> 0]
    /\ HostInert

\* one pass of `for brp in brp_min..=brp_max`
BtBrpStep ==
    /\ op.name = "calc_bit_timing"
    /\ ~op.returned
    /\ op.brp <= op.caps.brp_max
    /\ LET g == Gcd(op.caps.fclk_can, op.bitrate) IN
       \E s \in {bt_tseg1_loop([best |-> op.best, cands |-> {}],
                               op.caps.fclk_can \div g, op.bitrate \div g,
                               op.caps, op.brp, op.caps.tseg1_min)} :
          op' = [op EXCEPT !.best = s.best, !.cands = s.cands, !.brp = @ + 1]
    /\ UNCHANGED <<ev, frame_tx, wire, rx_log, rx_steps, cmd_q, inflight, dev, drv,
                   replies, hist, budget>>
    /\ UNCHANGED host_vars

\* `best.map(|(cfg, _)| cfg)`
BtReturn ==
    /\ op.name = "calc_bit_timing"
    /\ ~op.returned
    /\ op.brp > op.caps.brp_max
    /\ op' = [op EXCEPT !.returned = TRUE, !.cands = {}]
    /\ UNCHANGED <<ev, frame_tx, wire, rx_log, rx_steps, cmd_q, inflight, dev, drv,
                   replies, hist, budget>>
    /\ UNCHANGED host_vars

BitTimingNext == BtBrpStep \/ BtReturn

SpecBitTiming == BitTimingInit /\ [][BitTimingNext]_vars

\* the constraints a solution t has to meet for the bitrate and the caps
BtSolutionOk(t, bitrate, caps) ==
    LET g == Gcd(caps.fclk_can, bitrate)
        fq == caps.fclk_can \div g
        bq == bitrate \div g
        tseg1 == t.prop_seg + t.phase_seg1
        total_tq == 1 + tseg1 + t.phase_seg2
    IN /\ 20 * Abs(fq - bq * t.brp * total_tq) <= bq * t.brp * total_tq
       /\ 2 * (1 + tseg1) >= total_tq
       /\ 1 + tseg1 < total_tq
       /\ t.prop_seg >= 1
       /\ t.phase_seg1 >= 1
       /\ t.phase_seg2 >= 1
       /\ t.sjw = (IF caps.sjw_max < t.phase_seg2 THEN caps.sjw_max ELSE t.phase_seg2)

\* C26: for the nine standard bitrates at 48 MHz calc_bit_timing returns
\* nothing or a solution within 5% of the bitrate, with its sample point in
\* [0.5, 1.0), every segment at least 1 and sjw = min(sjw_max, phase_seg2).
C26_SolutionWithinConstraints ==
    (op.returned /\ op.best.some) => BtSolutionOk(op.best.v, op.bitrate, op.caps)

C26_Witness ==
    /\ op.returned
    /\ op.bitrate = 800000
    /\ op.best.some
    /\ op.best.v = [prop_seg |-> 6, phase_seg1 |-> 6, phase_seg2 |-> 2, sjw |-> 2,
                    brp |-> 4]

\* C27: for 500000 bit/s at 48 MHz the candidate with total_tq = 8 and
\* brp = 12 is phase_seg1 = 3, prop_seg = 4, phase_seg2 = 1, sjw = 1.
C27_CandidateOfEightQuanta ==
    (op.bitrate = 500000 /\ ~op.returned /\ op.brp = 12 + 1) =>
        \E c \in op.cands :
            /\ c.total_tq = 8
            /\ c.cfg = [prop_seg |-> 4, phase_seg1 |-> 3, phase_seg2 |-> 1,
                        sjw |-> 1, brp |-> 12]

-----------------------------------------------------------------------------
(* Claims about the messages of the outbound IPC queue, checked under       *)
(* SpecIpcOut                                                               *)

\* the messages that are or were in tx_out_pipe
OfferedMessages ==
    {ipc.tx_out_pipe[i] : i \in DOMAIN ipc.tx_out_pipe}
        \cup {ipc.delivered[i] : i \in DOMAIN ipc.delivered}

\* C28: every message in the outbound queue is one length byte followed by
\* exactly that many payload bytes, at most 255, the payload being the
\* encoding of a frame read; a frame whose encoding is longer than 255 bytes
\* is set aside and never queued.
C28_LengthPrefixedMessages ==
    /\ \A m \in OfferedMessages :
          /\ Len(m) >= 1
          /\ m[1] <= 255
          /\ Len(m) = 1 + m[1]
          /\ \E k \in DOMAIN ipc.read :
                SubSeq(m, 2, Len(m)) = encode_to_vec(ipc.read[k])
    /\ \A k \in DOMAIN ipc.accepted :
          Len(encode_to_vec(ipc.read[ipc.accepted[k]])) <= 255
    /\ \A k \in DOMAIN ipc.too_large :
          /\ Len(encode_to_vec(ipc.read[ipc.too_large[k]])) > 255
          /\ \A j \in DOMAIN ipc.accepted : ipc.accepted[j] # ipc.too_large[k]

\* the 20-byte encoding of the timestamped frame is queued behind a delivered
\* message, with the length byte 20 in front
C28_Witness ==
    /\ ipc.delivered # <<>>
    /\ \E i \in DOMAIN ipc.tx_out_pipe :
          /\ ipc.tx_out_pipe[i][1] = 20
          /\ Len(ipc.tx_out_pipe[i]) = 21

-----------------------------------------------------------------------------
(* gs_usb: close_channel on a channel that is not started, checked under    *)
(* SpecUsb                                                                  *)

\* C29: while close_channel runs on a channel that is already closed, the
\* driver's fields (configured_bitrate, timestamp_enabled, pad_pkts among
\* them) stay as they are; the transfer of its MODE request leaves the
\* adapter closed and the event loop as it was; and the call, unless its
\* caller dropped it, returns Ok whenever that transfer succeeded.
C29_CloseOnClosedChannel ==
    [][ (op.name = "close_channel" /\ dev.mode = "RESET") =>
            /\ drv' = drv
            /\ (cmd_q # <<>> /\ Head(cmd_q).id = op.wait /\ cmd_q' = Tail(cmd_q)) =>
                  /\ dev' = dev
                  /\ ev' = ev
            /\ (op'.name = "idle" /\ hist'.ops # Append(hist.ops,
                       [name |-> "close_channel", result |-> Err("cancelled")])) =>
                  hist'.ops = Append(hist.ops,
                                     [name |-> "close_channel",
                                      result |-> IF replies[op.wait].ok THEN Ok(0)
                                                 ELSE replies[op.wait]])
      ]_vars

\* set_bitrate, then close_channel on the closed channel, then open_channel:
\* all three returned Ok and the adapter is started
C29_Witness ==
    /\ hist.ops = <<[name |-> "set_bitrate", result |-> Ok(0)],
                    [name |-> "close_channel", result |-> Ok(0)],
                    [name |-> "open_channel", result |-> Ok(0)]>>
    /\ dev.mode = "START"
    /\ drv.configured_bitrate.some

-----------------------------------------------------------------------------
(* SLCAN: the line send_frame writes, checked under SpecCalls                *)

\* the bytes 0-9 and A-F
UpperHexBytes == (48..57) \cup (65..70)

\* C30: send_frame writes `t` and 3 uppercase hexadecimal digits of the
\* identifier (`T` and 8 for an extended frame), one length digit, two
\* uppercase hexadecimal digits per data byte and `\r`; for the standard
\* frame 0x1F with data 11 22 the line is `t01F21122\r`.
C30_SendFrameLine ==
    sl.state = "open" =>
        \A i \in DOMAIN sl.tx :
            (sl.tx[i].op = "send_frame" /\ sl.tx[i].ok) =>
                LET f == sl.tx[i].arg
                    b == sl.tx[i].bytes
                    w == IF f.extended THEN 8 ELSE 3
                IN /\ Len(b) = 1 + w + 1 + 2 * Len(f.data) + 1
                   /\ b[1] = (IF f.extended THEN Ch("T") ELSE Ch("t"))
                   /\ \A k \in 2..(w + 1) : b[k] \in UpperHexBytes
                   /\ from_str_radix(SubSeq(b, 2, w + 1))
                        = Some(<<f.id \div 65536, f.id % 65536>>)
                   /\ to_digit(b[w + 2]) = Some(f.dlc)
                   /\ \A k \in 1..Len(f.data) :
                         /\ b[w + 1 + 2 * k] \in UpperHexBytes
                         /\ b[w + 2 + 2 * k] \in UpperHexBytes
                         /\ HexInt(SubSeq(b, w + 1 + 2 * k, w + 2 + 2 * k)) = f.data[k]
                   /\ b[Len(b)] = Ch("\r")
                   /\ f = CanFrame_new(31, <<17, 34>>).frame =>
                         b = Bytes(<<"t", "0", "1", "F", "2", "1", "1", "2", "2", "\r">>)

-----------------------------------------------------------------------------
(* gs_usb: lengths reported by the parser against the bytes present,        *)
(* checked under SpecParse                                                  *)

\* the bytes the steps of the last chunk reported consumed
RECURSIVE SumConsumed(_)
SumConsumed(steps) ==
    IF steps = <<>> THEN 0
    ELSE steps[Len(steps)].consumed + SumConsumed(SubSeq(steps, 1, Len(steps) - 1))

\* C31: no parse step reads a payload or reports a length beyond the bytes of
\* the accumulator: process_rx_chunk never indexes or drains past its end.
\* (After such a step the accumulator is left as it was, chunk included.)
C31_ConsumedWithinAccumulator ==
    /\ ~ev.panic_after
    /\ ev.state = "panicked" => SumConsumed(rx_steps) <= Len(ev.rx_buffer)


-----------------------------------------------------------------------------
(* Commands while the frame channel is full: a started session, the adapter *)
(* delivering frames, the loop's two select! arms, read_frames (which a     *)
(* caller may stop calling) and close_channel as the bridge's shutdown      *)
(* issues it.                                                               *)

ShutdownInit ==
    \E features \in FeatureChoices, ts \in BOOLEAN :
        LET d == [GsUsbDriver_open(features, 32) EXCEPT
                      !.timestamp_enabled = ts,
                      !.configured_bitrate = Some(500000)]
        IN
        /\ drv = d
        /\ ev = [EventLoop_new(32, d.pad_pkts) EXCEPT !.timestamp_enabled = ts]
        /\ dev = [mode |-> "START", flags |-> open_channel_flags(d)]
        /\ frame_tx = <<>>
        /\ wire = <<>>
        /\ rx_log = <<>>
        /\ rx_steps = <<>>
        /\ cmd_q = <<>>
        /\ replies = <<>>
        /\ inflight = [queue |-> [i \in 1..NUM_RX_TRANSFERS |-> i], done |-> {}]
        /\ op = Idle
        /\ hist = NoHist
        /\ budget = [ops |-> 1, faults |-> 0, frames |-> MaxDevFrames, cancels |-> 0]
        /\ HostInert

ShutdownNext ==
    \/ DeviceSendsFrame
    \/ LoopRxCompletion \/ FrameSendResume
    \/ ReadFrames
    \/ StartCloseChannel \/ LoopControlOut \/ CloseChannelReply

\* the event loop is a spawned task and is scheduled whenever it can run; the
\* caller's await on the reply resumes once the reply is there.  Nothing
\* obliges a task to call read_frames.
SpecShutdown ==
    /\ ShutdownInit
    /\ [][ShutdownNext]_vars
    /\ WF_vars(LoopRxCompletion)
    /\ WF_vars(FrameSendResume)
    /\ WF_vars(LoopControlOut)
    /\ WF_vars(CloseChannelReply)

\* C32: a close_channel that has submitted its MODE(RESET) is eventually
\* answered, whether or not read_frames is called again.
C32_CloseEventuallyAnswered ==
    (op.name = "close_channel") ~> (op.name = "idle")


\* C33: whenever no driver operation is in progress and the loop has taken
\* every command, the driver's pad_pkts equals the loop's pad_pkts_enabled.
C33_PaddingSettingsAgree ==
    (op.name = "idle" /\ cmd_q = <<>>) => drv.pad_pkts = ev.pad_pkts_enabled


\* C34: a line that is not a valid frame line is skipped: read_frames never
\* aborts on it, and the number of frames returned so far is the number of
\* frame lines received in full, the lines after an invalid one included.
C34_InvalidLinesSkipped ==
    sl.state # "none" =>
        /\ sl.state = "open"
        /\ Len(sl.frames)
             = Len(FramesOfLines(sl.lines, LinesWithin(sl.lines, sl.nread), sl.high0))


-----------------------------------------------------------------------------
(* gs_usb: the MODE requests of an open                                     *)

\* enable_timestamp has been called and has returned
TimestampWasEnabled ==
    \E i \in DOMAIN hist.ops :
        hist.ops[i].name = "enable_timestamp" /\ hist.ops[i].result.ok

\* the adapter advertises padding and no stalled write has switched it off
PaddingStillEnabled ==
    HasFlag(drv.features, GS_CAN_FEATURE_PAD_PKTS_TO_MAX_PKT_SIZE) /\ hist.pad_off_at = 0

\* the flags the MODE(START) of the open in progress is to carry
ExpectedOpenFlags ==
    (IF TimestampWasEnabled THEN GS_CAN_MODE_HW_TIMESTAMP ELSE 0)
    + (IF PaddingStillEnabled THEN GS_CAN_MODE_PAD_PKTS_TO_MAX_PKT_SIZE ELSE 0)
    + (IF op.name = "open_listen_only" THEN GS_CAN_MODE_LISTEN_ONLY ELSE 0)

\* the open in progress returns Ok in this step
OpenReturnsOk ==
    /\ op.name \in {"open_channel", "open_listen_only"}
    /\ hist'.ops = Append(hist.ops, [name |-> op.name, result |-> Ok(0)])

\* C35: an open that returns Ok has sent two requests, MODE(RESET, 0) and then
\* MODE(START, flags), flags being HW_TIMESTAMP iff enable_timestamp was called
\* before, PAD_PKTS_TO_MAX_PKT_SIZE iff the feature is advertised and padding
\* is still enabled, LISTEN_ONLY iff it is open_listen_only, and nothing else.
C35_OpenSendsResetThenStart ==
    [][OpenReturnsOk =>
         LET n == Len(hist.sent_cmds) IN
         /\ op.step = 2
         /\ op.wait = n
         /\ n >= 2
         /\ hist.sent_cmds[n - 1] = ModeReset(drv)
         /\ hist.sent_cmds[n]
              = ControlOut(GS_USB_BREQ_MODE, drv.channel_index, drv.interface,
                           encode_mode(GS_CAN_MODE_START, ExpectedOpenFlags))]_vars

\* an open_listen_only has returned Ok after enable_timestamp, on an adapter
\* that advertises padding
C35_Witness ==
    /\ HasFlag(drv.features, GS_CAN_FEATURE_PAD_PKTS_TO_MAX_PKT_SIZE)
    /\ \E i, j \in DOMAIN hist.ops :
          /\ i < j
          /\ hist.ops[i] = [name |-> "enable_timestamp", result |-> Ok(0)]
          /\ hist.ops[j] = [name |-> "open_listen_only", result |-> Ok(0)]


\* the driver as the session began, before any byte was read
SlcanAtStart ==
    [sl EXCEPT !.state = "open", !.leftover = <<>>, !.timestamp_high = sl.high0,
               !.frames = <<>>]

\* C36: the frames the read_frames calls have returned so far are the frames
\* one call returns when a single read hands it all the bytes read so far.
C36_SplitReadsSameFrames ==
    sl.state # "none" =>
        sl.frames
          = slcan_read_frames(SlcanAtStart,
                              SubSeq(SlcanStream(sl.lines), 1, sl.nread)).frames


\* the SLCAN call that returns in this step is a set_bitrate that failed
SlcanSetBitrateFailed ==
    /\ sl.state # "none"
    /\ Len(sl'.ops) = Len(sl.ops) + 1
    /\ sl'.ops[Len(sl'.ops)].name = "set_bitrate"
    /\ ~sl'.ops[Len(sl'.ops)].result.ok

\* the PCAN call that returns in this step is a set_bitrate that failed
PcanSetBitrateFailed ==
    /\ pc.state # "none"
    /\ Len(pc'.ops) = Len(pc.ops) + 1
    /\ pc'.ops[Len(pc'.ops)].name = "set_bitrate"
    /\ ~pc'.ops[Len(pc'.ops)].result.ok

\* C37: a set_bitrate that returns an error leaves configured_bitrate, the
\* value get_bitrate returns, as it was before the call (SLCAN and PCAN).
C37_FailedSetBitrateKeepsBitrate ==
    [][/\ SlcanSetBitrateFailed => sl'.configured_bitrate = sl.configured_bitrate
       /\ PcanSetBitrateFailed => pc'.configured_bitrate = pc.configured_bitrate]_vars


-----------------------------------------------------------------------------
(* canserver: the channel name. Two instances of canserver on one machine,  *)
(* other pipe servers can0, can1, .. that come and go, and the named pipes  *)
(* \\.\pipe\can_<channel>_in that exist.                                    *)

\* bounds: servers of other programs, reconnections of a reader's client
MaxOthers == 2
MaxReconnects == 1

Instances == {1, 2}

CanBase == Bytes(<<"c", "a", "n">>)

\* format!(r"\\.\pipe\can_{}_in", channel), the prefix \\.\pipe\ left out
PipeInPath(channel) ==
    Bytes(<<"c", "a", "n", "_">>) \o channel \o Bytes(<<"_", "i", "n">>)

\* Path::exists on a pipe path: some server instance of that name exists
pipe_exists(pipes, path) == \E p \in pipes : p.name = path

\* the variant of next_auto_channel_step that numbers the candidates from 1
next_auto_channel_step_from_one(pipes, base, idx) ==
    LET candidate == base \o Decimal(idx + 1) IN
    IF ~pipe_exists(pipes, PipeInPath(candidate))
    THEN [returned |-> TRUE, candidate |-> candidate, idx |-> idx]
    ELSE [returned |-> FALSE, candidate |-> candidate, idx |-> idx + 1]

\* one iteration of the loop of next_auto_channel
next_auto_channel_step(pipes, base, idx) ==
    LET candidate == base \o Decimal(idx) IN
    IF ~pipe_exists(pipes, PipeInPath(candidate))
    THEN [returned |-> TRUE, candidate |-> candidate, idx |-> idx]
    ELSE [returned |-> FALSE, candidate |-> candidate, idx |-> idx + 1]

\* the --channel arguments: auto in two spellings, an explicit name
CliChannels == {Bytes(<<"a", "u", "t", "o">>), Bytes(<<"A", "U", "T", "O">>),
                Bytes(<<"c", "a", "n", "1">>)}

\* str::to_ascii_lowercase
to_ascii_lowercase(s) ==
    [i \in DOMAIN s |-> IF s[i] >= 65 /\ s[i] <= 90 THEN s[i] + 32 ELSE s[i]]

NotStarted ==
    [at |-> "idle", auto |-> FALSE, idx |-> 0, channel |-> <<>>, probes |-> <<>>,
     reconnects |-> MaxReconnects]

\* the pipe of another program's server number k
OtherPipe(k) == [owner |-> 0, name |-> PipeInPath(CanBase \o Decimal(k))]

AutoInit ==
    /\ \E others \in SUBSET (0..(MaxOthers - 1)) :
          ipc = [state |-> "auto",
                 pipes |-> {OtherPipe(k) : k \in others},
                 inst |-> [i \in Instances |-> NotStarted]]
    /\ br = NoBridge
    /\ sl = NoSlcan
    /\ pc = NoPcan
    /\ ev = EventLoop_new(32, FALSE)
    /\ frame_tx = <<>>
    /\ wire = <<>>
    /\ rx_log = <<>>
    /\ rx_steps = <<>>
    /\ UsbInert

AutoFrame == UNCHANGED <<usb_all, br, sl, pc>>

\* main up to the choice of channel_name: an explicit name is taken as it is,
\* "auto" enters next_auto_channel("can") with idx = 0
MainStarts(i) ==
    /\ ipc.inst[i].at = "idle"
    /\ \E channel \in CliChannels :
        ipc' = [ipc EXCEPT !.inst[i] =
                  IF to_ascii_lowercase(channel) = Bytes(<<"a", "u", "t", "o">>)
                  THEN [@ EXCEPT !.at = "probing", !.auto = TRUE]
                  ELSE [@ EXCEPT !.at = "init", !.channel = channel]]
    /\ AutoFrame

\* one iteration of next_auto_channel; `probes` notes what was probed and
\* whether a server instance of that name existed at that moment
ProbeStep(i) ==
    /\ ipc.inst[i].at = "probing"
    /\ LET x == ipc.inst[i]
           claimed == \E p \in ipc.pipes :
                          p.name = PipeInPath(CanBase \o Decimal(x.idx))
       IN \E r \in {next_auto_channel_step(ipc.pipes, CanBase, x.idx)} :
          ipc' = [ipc EXCEPT !.inst[i] =
                    [@ EXCEPT !.at = IF r.returned THEN "init" ELSE "probing",
                              !.idx = r.idx,
                              !.channel = IF r.returned THEN r.candidate ELSE <<>>,
                              !.probes = Append(@, [idx |-> x.idx,
                                                    claimed |-> claimed])]]
    /\ AutoFrame

\* initialize_driver: Ok, then spawn_ipc_tasks and "Created CAN server", or an
\* error and exit(1)
InitializeDriver(i) ==
    /\ ipc.inst[i].at = "init"
    /\ \E ok \in BOOLEAN :
        ipc' = [ipc EXCEPT !.inst[i].at = IF ok THEN "spawned" ELSE "exited"]
    /\ AutoFrame

\* start_ipc_reader: create_server_and_wait creates a server instance of the
\* pipe (ServerOptions::new(): first_pipe_instance is off, an instance of
\* another process under the same name is no obstacle)
ReaderCreatesServer(i) ==
    /\ ipc.inst[i].at = "spawned"
    /\ ipc' = [ipc EXCEPT
          !.pipes = @ \cup {[owner |-> i, name |-> PipeInPath(ipc.inst[i].channel)]},
          !.inst[i].at = "serving"]
    /\ AutoFrame

\* the reader's client disconnects: the server is dropped, the loop goes on
\* to create the next one
ReaderClientGone(i) ==
    /\ ipc.inst[i].at = "serving"
    /\ ipc.inst[i].reconnects > 0
    /\ ipc' = [ipc EXCEPT
          !.pipes = {p \in @ : p.owner # i},
          !.inst[i].at = "spawned",
          !.inst[i].reconnects = @ - 1]
    /\ AutoFrame

\* Ctrl+C: main returns and the process ends with its pipes
MainExits(i) ==
    /\ ipc.inst[i].at \in {"spawned", "serving"}
    /\ ipc' = [ipc EXCEPT !.pipes = {p \in @ : p.owner # i},
                          !.inst[i].at = "exited"]
    /\ AutoFrame

\* a server of another program ends
OtherServerEnds ==
    /\ \E p \in ipc.pipes :
          /\ p.owner = 0
          /\ ipc' = [ipc EXCEPT !.pipes = @ \ {p}]
    /\ AutoFrame

AutoNext ==
    \/ \E i \in Instances :
          \/ MainStarts(i) \/ ProbeStep(i) \/ InitializeDriver(i)
          \/ ReaderCreatesServer(i) \/ ReaderClientGone(i) \/ MainExits(i)
    \/ OtherServerEnds

SpecAuto == AutoInit /\ [][AutoNext]_vars

\* instance i bridges under its channel name
Serves(i) == ipc.inst[i].at \in {"spawned", "serving"}

\* C38: two instances started with channel "auto" never both serve the same
\* channel name.
C38_AutoChannelsDistinct ==
    \A i, j \in Instances :
        (i # j /\ ipc.inst[i].auto /\ ipc.inst[j].auto /\ Serves(i) /\ Serves(j))
            => ipc.inst[i].channel # ipc.inst[j].channel


-----------------------------------------------------------------------------
(* gs_usb: select_device. The USB devices libusb enumerates, the identifier *)
(* the caller passed, and the loop that opens the first device matching it. *)

\* bound: devices on the bus
MaxUsbDevices == 3

\* a device of the enumeration: whether it has the gs_usb VID/PID, a vendor
\* interface with both bulk endpoints, whether it can be opened, its strings
UsbDevice(gs, iface, opens, serial, product, bus, address) ==
    [gs |-> gs, iface |-> iface, opens |-> opens, serial |-> serial,
     product |-> product, bus |-> bus, address |-> address]

UsbDevices ==
    {UsbDevice(TRUE, TRUE, TRUE, Some(Bytes(<<"1">>)), Some(Bytes(<<"A", "C">>)), 1, 1),
     UsbDevice(TRUE, TRUE, TRUE, Some(Bytes(<<"A", "C">>)), None, 1, 2),
     UsbDevice(FALSE, TRUE, TRUE, Some(Bytes(<<"1">>)), None, 1, 3),
     UsbDevice(TRUE, FALSE, TRUE, None, None, 1, 4),
     UsbDevice(TRUE, TRUE, FALSE, None, None, 1, 5)}

RECURSIVE UsbLists(_)
UsbLists(n) ==
    IF n = 0 THEN {<<>>}
    ELSE UsbLists(n - 1) \cup {Append(q, d) : q \in UsbLists(n - 1), d \in UsbDevices}

Identifiers ==
    {Bytes(<<"a", "u", "t", "o">>), Bytes(<<"A", "U", "T", "O">>),
     Bytes(<<"0">>), Bytes(<<"1">>), Bytes(<<"2">>), Bytes(<<"1", " ">>),
     Bytes(<<"a", "c">>), Bytes(<<"0", "0", "1", ":", "0", "0", "2">>),
     Bytes(<<"x">>)}

\* str::trim for the ASCII blank
RECURSIVE trim(_)
trim(s) ==
    IF s = <<>> THEN s
    ELSE IF Head(s) = 32 THEN trim(Tail(s))
    ELSE IF s[Len(s)] = 32 THEN trim(SubSeq(s, 1, Len(s) - 1))
    ELSE s

eq_ignore_ascii_case(a, b) == to_ascii_lowercase(a) = to_ascii_lowercase(b)

RECURSIVE DecimalValue(_)
DecimalValue(s) ==
    IF s = <<>> THEN 0 ELSE 10 * DecimalValue(SubSeq(s, 1, Len(s) - 1)) + (s[Len(s)] - 48)

\* str::parse::<usize>: decimal digits, one leading '+' allowed
parse_usize(s) ==
    LET digits == IF s # <<>> /\ Head(s) = 43 THEN Tail(s) ELSE s IN
    IF digits # <<>> /\ \A i \in DOMAIN digits : digits[i] \in 48..57
    THEN Some(DecimalValue(digits))
    ELSE None

\* format!("{:03}", n)
Decimal03(n) ==
    LET d == Decimal(n) IN
    IF Len(d) >= 3 THEN d ELSE [i \in 1..(3 - Len(d)) |-> 48] \o d

\* format!("{:03}:{:03}", bus, address)
bus_addr(d) == Decimal03(d.bus) \o <<58>> \o Decimal03(d.address)

device_matches_identifier(identifier, index, d) ==
    LET ident == trim(identifier) IN
    \/ eq_ignore_ascii_case(ident, Bytes(<<"a", "u", "t", "o">>))
    \/ parse_usize(ident).some /\ parse_usize(ident).v = index
    \/ d.serial.some /\ eq_ignore_ascii_case(d.serial.v, ident)
    \/ d.product.some /\ eq_ignore_ascii_case(d.product.v, ident)
    \/ eq_ignore_ascii_case(bus_addr(d), ident)

SelectInit ==
    /\ \E identifier \in Identifiers, list \in UsbLists(MaxUsbDevices) :
          op = [name |-> "select_device", identifier |-> identifier, list |-> list,
                i |-> 1, index |-> 0, result |-> None, error |-> FALSE,
                broke |-> FALSE, returned |-> FALSE, outcome |-> NoReply]
    /\ ev = EventLoop_new(32, FALSE)
    /\ frame_tx = <<>>
    /\ wire = <<>>
    /\ rx_log = <<>>
    /\ rx_steps = <<>>
    /\ cmd_q = <<>>
    /\ inflight = [queue |-> <<>>, done |-> {}]
    /\ dev = [mode |-> "RESET", flags |-> 0]
    /\ drv = GsUsbDriver_open(0, 32)
    /\ replies = <<>>
    /\ hist = NoHist
    /\ budget = [ops |-> 0, faults |-> 0, frames |-> 0, cancels |-> 0]
    /\ HostInert

\* one pass of `for i in 0..count` over device d
select_device_step(o, d) ==
    IF ~d.gs \/ ~d.iface THEN [o EXCEPT !.i = @ + 1]
    ELSE IF ~d.opens THEN [o EXCEPT !.error = TRUE, !.broke = TRUE]
    ELSE IF device_matches_identifier(o.identifier, o.index, d)
    THEN [o EXCEPT !.result = Some(o.i), !.broke = TRUE]
    ELSE [o EXCEPT !.index = @ + 1, !.i = @ + 1]

SelectStep ==
    /\ op.name = "select_device"
    /\ ~op.returned /\ ~op.broke
    /\ op.i <= Len(op.list)
    /\ op' = select_device_step(op, op.list[op.i])
    /\ UNCHANGED <<ev, frame_tx, wire, rx_log, rx_steps, cmd_q, inflight, dev, drv,
                   replies, hist, budget>>
    /\ UNCHANGED host_vars

\* after the loop: the selected device, else the error, else NotFound
SelectReturn ==
    /\ op.name = "select_device"
    /\ ~op.returned
    /\ op.broke \/ op.i > Len(op.list)
    /\ op' = [op EXCEPT !.returned = TRUE,
                        !.outcome = IF op.result.some THEN Ok(op.result.v)
                                    ELSE IF op.error THEN Err("Other")
                                    ELSE Err("NotFound")]
    /\ UNCHANGED <<ev, frame_tx, wire, rx_log, rx_steps, cmd_q, inflight, dev, drv,
                   replies, hist, budget>>
    /\ UNCHANGED host_vars

SelectNext == SelectStep \/ SelectReturn

SpecSelect == SelectInit /\ [][SelectNext]_vars

\* the positions of the candidates (gs_usb devices with a usable interface)
\* in enumeration order
CandidatePositions(list) ==
    SelectSeq([i \in 1..Len(list) |-> i], LAMBDA i : list[i].gs /\ list[i].iface)

\* device d carries the text as serial, product or bus:address
MatchesByString(d, ident) ==
    \/ d.serial.some /\ eq_ignore_ascii_case(d.serial.v, ident)
    \/ d.product.some /\ eq_ignore_ascii_case(d.product.v, ident)
    \/ eq_ignore_ascii_case(bus_addr(d), ident)

\* C39: the device select_device returns is the first candidate for "auto",
\* the k-th candidate (zero-based) for a decimal identifier k whatever the
\* strings of the candidates are, and a candidate found by its strings only
\* when the identifier is neither.
C39_SelectPrecedence ==
    (op.name = "select_device" /\ op.returned /\ op.outcome.ok) =>
        LET ident == trim(op.identifier)
            cands == CandidatePositions(op.list)
            pos == op.outcome.n
        IN IF eq_ignore_ascii_case(ident, Bytes(<<"a", "u", "t", "o">>))
           THEN pos = cands[1]
           ELSE IF \A i \in DOMAIN ident : ident[i] \in 48..57
           THEN /\ DecimalValue(ident) < Len(cands)
                /\ pos = cands[DecimalValue(ident) + 1]
           ELSE MatchesByString(op.list[pos], ident)

====
